---- MODULE Spec2Model ----
(***************************************************************************)
(* Parameter substitution in OpenFOAM case files, as done by               *)
(*   - gui.py                      ParameterModifier (line-by-line pass),  *)
(*   - scripts/parametric_runner.py ParameterModifier (regex passes),      *)
(*   - scripts/run_parametric.py    modify_transport_properties and        *)
(*                                  generate_alpha_with_config.            *)
(*                                                                         *)
(* A case directory is a map from file name to a sequence of lines, or to  *)
(* Missing.  A line is a record: its indentation width, the words that     *)
(* precede its value, the width of the gap before the value, the value     *)
(* text and what follows the semicolon.  A value text is a literal:        *)
(*   Dec(n, s)     the decimal literal n * 10^-s written with s fractional *)
(*                 digits ("0.598" is Dec(598, 3), "35" is Dec(35, 0),     *)
(*                 "35.0" is Dec(350, 1)),                                 *)
(*   Sci(m, f, e)  the literal m * 10^(e - f) written with f fractional    *)
(*                 mantissa digits ("1.666667e-04" is Sci(1666667, 6, -4)),*)
(*   Sym(t)        a text that is not a number ("$nu_0", "uniform 0").     *)
(* Python numbers are the decimals that str() prints: an int is Dec(n, 0), *)
(* a float is Dec(n, s) with s >= 1.                                       *)
(***************************************************************************)
EXTENDS Integers, Sequences, FiniteSets, TLC

VARIABLES files, log, hist, study, watch

vars == <<files, log, hist, study, watch>>

(* ------------------------------ bounds -------------------------------- *)

\* Operations performed on one case directory in one behaviour.
MaxSteps == 2

\* Runs of one study whose solver command may end otherwise than with
\* return code 0.
MaxFailures == 1

(* --------------------------- value texts ------------------------------ *)

Dec(n, s) == [k |-> "dec", n |-> n, s |-> s, e |-> 0, t |-> ""]

Sci(m, f, e) == [k |-> "sci", n |-> m, s |-> f, e |-> e, t |-> ""]

Sym(t) == [k |-> "sym", n |-> 0, s |-> 0, e |-> 0, t |-> t]

\* None: a key the parameter snapshot does not hold.
None == [k |-> "none", n |-> 0, s |-> 0, e |-> 0, t |-> ""]

\* A text made of the characters of a number ([\d.eE+-]+) that float()
\* rejects, such as 0.19.8.
Bad(t) == [k |-> "bad", n |-> 0, s |-> 0, e |-> 0, t |-> t]

RECURSIVE Pow10(_)
Pow10(i) == IF i <= 0 THEN 1 ELSE 10 * Pow10(i - 1)

Abs(i) == IF i < 0 THEN -i ELSE i

\* The character class [\d.eE+-]+ of the runner's patterns: a number text.
IsNumberText(v) == v.k \in {"dec", "sci"}

\* [\d.eE+-]+ matches the text.
MatchesNumberChars(v) == v.k \in {"dec", "sci", "bad"}

\* The pattern \d+ of _modify_alpha_water: digits only.
IsDigitsText(v) == v.k = "dec" /\ v.s = 0 /\ v.n >= 0

\* An integer literal with no fractional part.
IsIntegerLiteral(v) == v.k = "dec" /\ v.s = 0

(* ------------------------------ lines --------------------------------- *)

KV(ind, key, gap, val, rest) ==
    [kind |-> "kv", ind |-> ind, key |-> key, gap |-> gap, val |-> val, rest |-> rest]

\* A line that is no statement: a brace, a block name, a comment.
Txt(ind, words) ==
    [kind |-> "txt", ind |-> ind, key |-> words, gap |-> 0, val |-> Sym(""), rest |-> ""]

Missing == [exists |-> FALSE, lines |-> <<>>]

File(lines) == [exists |-> TRUE, lines |-> lines]

IsPrefix(p, s) == Len(p) <= Len(s) /\ SubSeq(s, 1, Len(p)) = p

RECURSIVE KeyLen(_)
\* len(k) of a key text whose words are separated by one space.
KeyLen(k) ==
    IF Len(k) = 0 THEN 0
    ELSE IF Len(k) = 1 THEN Len(k[1])
    ELSE Len(k[1]) + 1 + KeyLen(Tail(k))

Max(a, b) == IF a >= b THEN a ELSE b

Param(k, v) == [k |-> k, v |-> v]

LogEntry(st, key, file) == [st |-> st, key |-> key, file |-> file]

\* What one operation hands back: the directory, the messages it logged or
\* printed, and the exception that left it ("none" when it returned).
Result(fs, out, exc) == [fs |-> fs, out |-> out, exc |-> exc]

(* ---------------- gui.py: _apply_params_line_by_line ------------------ *)

\* Column at which the value starts: ' ' * (16 - len(key_to_match)).
ColumnWidth == 16

\* re.match(rf'^{k}\s*;', stripped) or re.match(rf'^{k}\s+', stripped):
\* the stripped line starts with k, and k is followed by white space (or by
\* the semicolon, which no modelled line has right after its key).
GuiMatch(k, line) ==
    /\ Len(k) > 0
    /\ IsPrefix(k, line.key)
    /\ \/ Len(k) < Len(line.key)
       \/ line.kind = "kv" /\ line.gap >= 1

RECURSIVE FirstMatch(_, _, _)
\* for k in params_to_set: if match: key_to_match = k; break
\* The index of the first requested key that matches, 0 when none does.
FirstMatch(params, line, i) ==
    IF i > Len(params) THEN 0
    ELSE IF GuiMatch(params[i].k, line) THEN i
    ELSE FirstMatch(params, line, i + 1)

\* f"{indent}{key_to_match}{' ' * (16 - len(key_to_match))}{value};"
FormatLine(line, p) ==
    KV(line.ind, p.k, Max(ColumnWidth - KeyLen(p.k), 0), p.v, "")

\* The names bound in _apply_params_line_by_line when line 99 runs.
LocalNames ==
    {"self", "file_path", "params_to_set", "lines", "new_lines",
     "modified_keys_this_call", "line", "stripped_line", "key_to_match", "k",
     "value", "indent", "re"}

\* Lines 95-101, the branch taken for a matched line.  Line 98 appends the
\* formatted line; line 99 then evaluates the name new_line, which nothing
\* binds, so the call leaves with NameError before lines 100-101 log the key.
RewriteLine(acc, line, p, f) ==
    LET appended == Append(acc.new_lines, FormatLine(line, p))
    IN  IF "new_line" \notin LocalNames
        THEN [acc EXCEPT !.new_lines = appended, !.exc = "NameError"]
        ELSE [acc EXCEPT !.new_lines = Append(appended, FormatLine(line, p)),
                         !.out = Append(@, LogEntry("applied", p.k, f)),
                         !.modified = @ \cup {p.k}]

RECURSIVE ScanLines(_, _, _, _)
\* The loop of lines 83-103 over the remaining lines.
ScanLines(lines, params, acc, f) ==
    IF lines = <<>> THEN acc
    ELSE LET line == Head(lines)
             i == FirstMatch(params, line, 1)
         IN  IF i # 0
             THEN LET step == RewriteLine(acc, line, params[i], f)
                  IN  IF step.exc # "none" THEN step
                      ELSE ScanLines(Tail(lines), params, step, f)
             ELSE ScanLines(Tail(lines), params,
                            [acc EXCEPT !.new_lines = Append(@, line)], f)

RECURSIVE NotFoundLog(_, _, _)
\* Lines 107-108: one message per requested key that was never modified.
NotFoundLog(params, modified, f) ==
    IF params = <<>> THEN <<>>
    ELSE IF Head(params).k \in modified THEN NotFoundLog(Tail(params), modified, f)
    ELSE <<LogEntry("notfound", Head(params).k, f)>>
         \o NotFoundLog(Tail(params), modified, f)

\* _apply_params_line_by_line(file_path, params_to_set) on directory fs.
ApplyParams(fs, f, params) ==
    IF ~fs[f].exists
    THEN Result(fs, <<LogEntry("nofile", <<>>, f)>>, "none")
    ELSE LET r == ScanLines(fs[f].lines, params,
                            [new_lines |-> <<>>, out |-> <<>>, modified |-> {},
                             exc |-> "none"], f)
         IN  IF r.exc # "none"
             THEN Result(fs, r.out, r.exc)
             ELSE Result([fs EXCEPT ![f] = File(r.new_lines)],
                         r.out \o NotFoundLog(params, r.modified, f), "none")

(* ------------------- Python numbers and formatting -------------------- *)

\* f"{value}": str() of a number prints the decimal it was read from.
PyStr(v) == v

\* float(x) of a number, as str() prints it: 35 becomes 35.0.
PyFloat(v) == IF v.s = 0 THEN Dec(v.n * 10, 1) ELSE v

\* int(x): truncation toward zero.
Trunc(v) ==
    IF v.n >= 0 THEN v.n \div Pow10(v.s) ELSE -((-v.n) \div Pow10(v.s))

\* float(match.group(1)): the number a value text denotes, as a decimal.
TextValue(v) ==
    IF v.k = "dec" THEN Dec(v.n, v.s)
    ELSE IF v.e - v.s <= 0 THEN Dec(v.n, v.s - v.e)
    ELSE Dec(v.n * Pow10(v.e - v.s), 0)

RECURSIVE GCD(_, _)
GCD(a, b) == IF b = 0 THEN a ELSE GCD(b, a % b)

\* The exact number num / den in lowest terms (den > 0).
Rat(num, den) ==
    LET g == GCD(Abs(num), den)
    IN  [num |-> num \div g, den |-> den \div g]

ToRat(v) == Rat(v.n, Pow10(v.s))

RatAdd(a, b) == Rat(a.num * b.den + b.num * a.den, a.den * b.den)

RatMul(a, b) == Rat(a.num * b.num, a.den * b.den)

\* a / b for b > 0.
RatDiv(a, b) == Rat(a.num * b.den, a.den * b.num)

\* The integer q with q * 10^-f nearest to x (x >= 0).  A tie is decided by
\* the binary double in Python; the inputs of this model hold no tie, and one
\* is rounded to even here.
RoundRat(x, f) ==
    LET g == GCD(Pow10(f), x.den)
        n == x.num * (Pow10(f) \div g)
        d == x.den \div g
        q == n \div d
        r == n % d
    IN  IF 2 * r > d THEN q + 1
        ELSE IF 2 * r < d THEN q
        ELSE IF q % 2 = 0 THEN q ELSE q + 1

\* f"{x:.3f}", f"{x:.6f}": f fractional digits.
Fixed(x, f) == Dec(RoundRat(x, f), f)

RECURSIVE Normalise(_, _, _)
\* num / den * 10^x with den <= num < 10 * den (num, den > 0).
Normalise(num, den, x) ==
    IF num < den THEN Normalise(num * 10, den, x - 1)
    ELSE IF num >= 10 * den THEN Normalise(num, den * 10, x + 1)
    ELSE [num |-> num, den |-> den, x |-> x]

RECURSIVE LongDiv(_, _, _, _)
\* f more quotient digits of rem / den appended to the mantissa m.
LongDiv(m, rem, den, f) ==
    IF f = 0 THEN [m |-> m, rem |-> rem]
    ELSE LongDiv(m * 10 + (rem * 10) \div den, (rem * 10) % den, den, f - 1)

\* f"{num / den * 10**x:.{f}e}": the mantissa has f fractional digits.
SciFormat(num, den, x, f) ==
    IF num = 0 THEN Sci(0, f, 0)
    ELSE LET z == Normalise(num, den, x)
             d == LongDiv(z.num \div z.den, z.num % z.den, z.den, f)
             up == \/ 2 * d.rem > z.den
                   \/ 2 * d.rem = z.den /\ d.m % 2 = 1
             m == IF up THEN d.m + 1 ELSE d.m
         IN  IF m = Pow10(f + 1) THEN Sci(Pow10(f), f, z.x + 1)
             ELSE Sci(m, f, z.x)

\* Fractional mantissa digits of the kinematic viscosity text (":.6e").
SciDigits == 6

\* The same quotient under ":.3e", a mantissa of three fractional digits.
KinematicTextThreeDigits(eta, rho) ==
    SciFormat(eta.n, rho.n, rho.s - eta.s, 3)

\* f"{value / RHO_INK:.6e}"
KinematicText(eta, rho) == SciFormat(eta.n, rho.n, rho.s - eta.s, SciDigits)

(* ------------ parametric_runner.py: ParameterModifier ----------------- *)

\* ^(<param>\s+)([\d.eE+-]+)(\s*;) under re.MULTILINE: the key starts the
\* line (no indentation), white space follows it, the value is a number text.
RunnerMatch(line, param) ==
    /\ line.kind = "kv"
    /\ line.ind = 0
    /\ line.key = <<param>>
    /\ line.gap >= 1
    /\ MatchesNumberChars(line.val)

\* re.sub(pattern, rf'\g<1>{text}\3', content, flags=re.MULTILINE): every
\* matching line gets the new value text; groups 1 and 3 are kept.
SubNumber(lines, param, text) ==
    [i \in DOMAIN lines |->
        IF RunnerMatch(lines[i], param) THEN [lines[i] EXCEPT !.val = text]
        ELSE lines[i]]

\* re.search(r'^<param>\s+([\d.eE+-]+)\s*;', content, re.MULTILINE): the index
\* of the first matching line, 0 when there is none.
SearchNumber(lines, param) ==
    IF \E i \in DOMAIN lines : RunnerMatch(lines[i], param)
    THEN CHOOSE i \in DOMAIN lines :
            /\ RunnerMatch(lines[i], param)
            /\ \A j \in 1..(i - 1) : ~RunnerMatch(lines[j], param)
    ELSE 0

\* _modify_control_dict(param, value): system/parameters.
ModifyControlDict(fs, param, value) ==
    LET f == "parameters" IN
    IF ~fs[f].exists
    THEN Result(fs, <<LogEntry("nofile", <<>>, f)>>, "none")
    ELSE LET new_content == SubNumber(fs[f].lines, param, PyStr(value))
         IN  IF new_content # fs[f].lines
             THEN Result([fs EXCEPT ![f] = File(new_content)],
                         <<LogEntry("applied", <<param>>, f)>>, "none")
             ELSE Result(fs, <<LogEntry("notfound", <<param>>, f)>>, "none")

\* _modify_process(param, value): end_time goes to _modify_control_dict;
\* dispense_time reads y_ink back from system/parameters and writes
\* dispense_time, dispense_velocity = y_ink * 0.001 / value and dispense_end;
\* any other name does nothing.
ModifyProcess(fs, param, value) ==
    LET f == "parameters" IN
    IF param = "end_time" THEN ModifyControlDict(fs, "endTime", value)
    ELSE IF param # "dispense_time" THEN Result(fs, <<>>, "none")
    ELSE IF ~fs[f].exists
    THEN Result(fs, <<LogEntry("nofile", <<>>, f)>>, "none")
    ELSE LET m == SearchNumber(fs[f].lines, "y_ink") IN
         IF m = 0 THEN Result(fs, <<LogEntry("notfound", <<"y_ink">>, f)>>, "none")
         ELSE IF ~IsNumberText(fs[f].lines[m].val)
         THEN Result(fs, <<>>, "ValueError")
         ELSE IF value.n = 0 THEN Result(fs, <<>>, "ZeroDivisionError")
         ELSE LET y_ink == ToRat(TextValue(fs[f].lines[m].val))
                  dispense_velocity ==
                      RatDiv(RatMul(y_ink, Rat(1, 1000)), ToRat(value))
                  s1 == SubNumber(fs[f].lines, "dispense_time", PyStr(value))
                  s2 == SubNumber(s1, "dispense_velocity",
                                  Fixed(dispense_velocity, 6))
                  s3 == SubNumber(s2, "dispense_end", PyStr(value))
              IN  Result([fs EXCEPT ![f] = File(s3)],
                         <<LogEntry("applied", <<"dispense_time">>, f)>>, "none")

\* ^(CA_<surface>\s+)\d+(\s*;.*?)$: as RunnerMatch, the value being digits.
AngleMatch(line, param) == RunnerMatch(line, param) /\ IsDigitsText(line.val)

\* rf'\g<1>{int(angle)}\2'
AngleText(angle) == Dec(Trunc(angle), 0)

\* _modify_alpha_water(surface, angle): CA_<surface> of system/parameters.
ModifyAlphaWater(fs, surface, angle) ==
    LET f == "parameters"
        param_name == "CA_" \o surface
    IN
    IF ~fs[f].exists
    THEN Result(fs, <<LogEntry("nofile", <<>>, f)>>, "none")
    ELSE LET new_content ==
                 [i \in DOMAIN fs[f].lines |->
                     IF AngleMatch(fs[f].lines[i], param_name)
                     THEN [fs[f].lines[i] EXCEPT !.val = AngleText(angle)]
                     ELSE fs[f].lines[i]]
         IN  IF new_content # fs[f].lines
             THEN Result([fs EXCEPT ![f] = File(new_content)],
                         <<LogEntry("applied", <<param_name>>, f)>>, "none")
             ELSE Result(fs, <<LogEntry("notfound", <<param_name>>, f)>>, "none")

\* (sigma\s+)[^;]+(;) with no anchor: the first word sigma of a statement, at
\* any indentation; what lies between it and the semicolon is replaced.
SigmaIndex(line) ==
    IF line.kind = "kv" /\ \E i \in DOMAIN line.key : line.key[i] = "sigma"
    THEN CHOOSE i \in DOMAIN line.key :
            /\ line.key[i] = "sigma"
            /\ \A j \in 1..(i - 1) : line.key[j] # "sigma"
    ELSE 0

\* _modify_surface_tension(param, value): constant/transportProperties.  A
\* missing file returns without a message; otherwise the file is written and
\* the success message printed whether or not a line matched.
ModifySurfaceTension(fs, param, value) ==
    LET f == "transportProperties" IN
    IF ~fs[f].exists
    THEN Result(fs, <<>>, "none")
    ELSE LET new_content ==
                 [i \in DOMAIN fs[f].lines |->
                     LET line == fs[f].lines[i]
                         j == SigmaIndex(line)
                     IN  IF j # 0 /\ (j < Len(line.key) \/ line.gap >= 1)
                         THEN [line EXCEPT !.key = SubSeq(line.key, 1, j),
                                           !.val = PyStr(value)]
                         ELSE line]
         IN  Result([fs EXCEPT ![f] = File(new_content)],
                    <<LogEntry("applied", <<"sigma">>, f)>>, "none")

\* param_map of _modify_transport_properties: (dynamic key, kinematic key).
RheologyMap ==
    [eta0 |-> <<"eta_0", "nu_0">>, eta_inf |-> <<"eta_inf", "nu_inf">>,
     lambda |-> <<"k_carreau", "">>, n |-> <<"n_carreau", "">>]

\* _modify_transport_properties(param, value) with RHO_INK = get_rho_ink(),
\* the density of the template's system/parameters (3000 when it has none).
ModifyTransportProperties(fs, param, value, rho) ==
    LET f == "parameters" IN
    IF param \notin DOMAIN RheologyMap
    THEN Result(fs, <<LogEntry("unsupported", <<param>>, f)>>, "none")
    ELSE IF ~fs[f].exists
    THEN Result(fs, <<LogEntry("nofile", <<>>, f)>>, "none")
    ELSE LET eta_param == RheologyMap[param][1]
             nu_param == RheologyMap[param][2]
             step1 == SubNumber(fs[f].lines, eta_param, PyStr(value))
         IN  IF nu_param # ""
             THEN IF rho.n = 0
                  THEN Result(fs, <<>>, "ZeroDivisionError")
                  ELSE Result([fs EXCEPT ![f] =
                                  File(SubNumber(step1, nu_param,
                                                 KinematicText(value, rho)))],
                              <<LogEntry("applied", <<eta_param, nu_param>>, f)>>,
                              "none")
             ELSE Result([fs EXCEPT ![f] = File(step1)],
                         <<LogEntry("applied", <<eta_param>>, f)>>, "none")

\* S_PUIT = 0.8 * 0.128 and X_BUSE = 0.3 of _modify_geometry: the factor
\* S_PUIT / X_BUSE is 1024 / 3000.
SPuitMicro == 1024

XBuseMicro == 3000

\* _modify_geometry: the dependents of y_buse, written once y_buse_bottom is
\* read back.  y_buse is the nozzle height the dependents are computed from.
WriteDependents(lines, y_buse) ==
    LET m == SearchNumber(lines, "y_buse_bottom") IN
    IF m = 0 THEN lines
    ELSE LET y_buse_bottom == ToRat(TextValue(lines[m].val))
             y_buse_top == RatAdd(y_buse_bottom, y_buse)
             y_buse_top_m == RatMul(y_buse_top, Rat(1, 1000))
             s1 == SubNumber(lines, "y_buse_top", Fixed(y_buse_top, 3))
             s2 == SubNumber(s1, "y_buse_top_m", Fixed(y_buse_top_m, 6))
             s3 == SubNumber(s2, "y_ink", Fixed(y_buse, 3))
             s4 == SubNumber(s3, "y_ink_top", Fixed(y_buse_top, 3))
         IN  SubNumber(s4, "y_ink_top_m", Fixed(y_buse_top_m, 6))

\* float(match.group(1)) of the y_buse_bottom statement raises ValueError,
\* before write_text.
BottomMalformed(lines) ==
    /\ SearchNumber(lines, "y_buse_bottom") # 0
    /\ ~IsNumberText(lines[SearchNumber(lines, "y_buse_bottom")].val)

\* _modify_geometry(param, value): system/parameters.
ModifyGeometry(fs, param, value) ==
    LET f == "parameters" IN
    IF ~fs[f].exists
    THEN Result(fs, <<LogEntry("nofile", <<>>, f)>>, "none")
    ELSE IF param \in {"ratio_surface", "y_buse"} /\ BottomMalformed(fs[f].lines)
    THEN Result(fs, <<>>, "ValueError")
    ELSE IF param = "ratio_surface"
    THEN LET y_buse == RatMul(ToRat(value), Rat(SPuitMicro, XBuseMicro))
             s1 == SubNumber(fs[f].lines, "ratio_surface", PyStr(value))
             s2 == SubNumber(s1, "y_buse", Fixed(y_buse, 3))
             found == SearchNumber(s2, "y_buse_bottom") # 0
         IN  Result([fs EXCEPT ![f] = File(WriteDependents(s2, y_buse))],
                    IF found THEN <<LogEntry("applied", <<param>>, f)>> ELSE <<>>,
                    "none")
    ELSE LET s1 == SubNumber(fs[f].lines, param, PyStr(value))
             new_content ==
                 IF param = "y_buse" THEN WriteDependents(s1, ToRat(value))
                 ELSE IF param = "x_gap_buse"
                 THEN SubNumber(s1, "x_gap_buse_m",
                                Fixed(RatMul(ToRat(value), Rat(1, 1000)), 6))
                 ELSE s1
         IN  Result([fs EXCEPT ![f] = File(new_content)],
                    <<LogEntry("applied", <<param>>, f)>>, "none")

\* The density used when the snapshot holds none: .get('rho_ink', 3000.0)
\* and get_parameter(params, 'rho_ink', 3000).
DefaultRhoInk == 3000

\* params.get('physical', {}).get('rho_ink', 3000.0)
RhoOrDefault(rho) == IF rho = None THEN Dec(DefaultRhoInk, 0) ELSE rho

\* The template tree with rho as the rho_ink of its system/parameters, the
\* statement removed when rho is None.
WithRhoInk(template, rho) ==
    LET f == "parameters"
        lines == template[f].lines
        keep == SelectSeq(lines, LAMBDA line : line.key # <<"rho_ink">>)
    IN  [template EXCEPT ![f] =
            File(IF rho = None THEN keep
                 ELSE [j \in DOMAIN lines |->
                          IF lines[j].key = <<"rho_ink">>
                          THEN [lines[j] EXCEPT !.val = rho] ELSE lines[j]])]

\* get_rho_ink(): rho_ink of the template's system/parameters as
\* read_parameters parses it (the last rho_ink statement wins), 3000 when
\* the file or the statement is missing.
GetRhoInk(template) ==
    LET f == "parameters"
        S == IF template[f].exists
             THEN {j \in DOMAIN template[f].lines :
                       /\ template[f].lines[j].kind = "kv"
                       /\ template[f].lines[j].key = <<"rho_ink">>}
             ELSE {}
    IN  IF S = {} THEN Dec(DefaultRhoInk, 0)
        ELSE template[f].lines[CHOOSE j \in S : \A m \in S : m <= j].val

\* set_parameter(param_path, value): the section of the dotted path selects
\* the method; rho is what get_rho_ink() returns.
SetParameter(fs, path, value, rho) ==
    LET section == path[1]
        param == path[2]
    IN  IF section = "rheology" THEN ModifyTransportProperties(fs, param, value, rho)
        ELSE IF section = "contact_angles" THEN ModifyAlphaWater(fs, param, value)
        ELSE IF section = "surface" THEN ModifySurfaceTension(fs, param, value)
        ELSE IF section = "numerical" THEN ModifyControlDict(fs, param, value)
        ELSE IF section = "process" THEN ModifyProcess(fs, param, value)
        ELSE IF section = "geometry" THEN ModifyGeometry(fs, param, value)
        ELSE Result(fs, <<LogEntry("unsupported", <<section>>, "")>>, "none")

(* ------------- parametric_runner.py: StudyRunner.run_study ------------ *)

RECURSIVE Product(_)
\* itertools.product(*value_lists): the tuples in order, the last list
\* varying fastest.
Product(value_lists) ==
    IF value_lists = <<>> THEN << <<>> >>
    ELSE LET rest == Product(Tail(value_lists))
             Rows[n \in 0..Len(Head(value_lists))] ==
                 IF n = 0 THEN <<>>
                 ELSE Rows[n - 1]
                      \o [m \in DOMAIN rest |-> <<Head(value_lists)[n]>> \o rest[m]]
         IN  Rows[Len(Head(value_lists))]

RECURSIVE DictZip(_, _, _)
\* dict(zip(names, combo)) appended to d: a name met again keeps its place
\* and takes the later value.
DictZip(d, names, combo) ==
    IF names = <<>> \/ combo = <<>> THEN d
    ELSE LET k == Head(names)
             v == Head(combo)
             d2 == IF \E n \in DOMAIN d : d[n].k = k
                   THEN [n \in DOMAIN d |-> IF d[n].k = k THEN Param(k, v) ELSE d[n]]
                   ELSE Append(d, Param(k, v))
         IN  DictZip(d2, Tail(names), Tail(combo))

\* _generate_grid_combinations(parameters)
GenerateGridCombinations(parameters) ==
    LET names == [n \in DOMAIN parameters |-> parameters[n].name]
        value_lists == [n \in DOMAIN parameters |-> parameters[n].values]
        tuples == Product(value_lists)
    IN  [n \in DOMAIN tuples |-> DictZip(<<>>, names, tuples[n])]

\* Run numbers that ignore start_index.
EnumerateFromOne(start_index, n) == n

\* enumerate(combinations, start_index): the index of the n-th combination.
Enumerate(start_index, n) == start_index + n - 1

\* The combinations of a study configuration, or <<>> with valid = FALSE for
\* a configuration run_study rejects.
Combinations(config) ==
    IF config.sweep_type = "grid"
    THEN IF config.parameters = <<>> THEN [valid |-> FALSE, list |-> <<>>]
         ELSE [valid |-> TRUE, list |-> GenerateGridCombinations(config.parameters)]
    ELSE IF config.values = <<>> THEN [valid |-> FALSE, list |-> <<>>]
         ELSE [valid |-> TRUE,
               list |-> [n \in DOMAIN config.values |->
                            <<Param(config.parameter, config.values[n])>>]]

\* The number of runs of the summary that did not end with status OK.
Failures(summary) ==
    Cardinality({n \in DOMAIN summary : summary[n].status \notin {"OK", "DRY_RUN"}})

(* --------------------------- run_parametric.py ------------------------ *)

\* rho = 3000 of modify_transport_properties.
RhoRunParametric == 3000

\* <key>\s+[\d.e+-]+; with no anchor: the last word before a number text, at
\* any indentation.
TailMatch(line, key) ==
    /\ line.kind = "kv"
    /\ Len(line.key) >= 1
    /\ line.key[Len(line.key)] = key
    /\ line.gap >= 1
    /\ MatchesNumberChars(line.val)

\* re.sub(pattern, f'<key><spaces>{text};', content): key, a fixed run of
\* spaces and the new text replace the match; what precedes it is kept.
SubTail(lines, key, gap, text) ==
    [i \in DOMAIN lines |->
        IF TailMatch(lines[i], key)
        THEN [lines[i] EXCEPT !.gap = gap, !.val = text]
        ELSE lines[i]]

\* modify_transport_properties(case_dir, viscosity_Pa_s): the file is opened
\* without a test for its existence.
RPModifyTransportProperties(fs, viscosity) ==
    LET f == "transportProperties" IN
    IF ~fs[f].exists
    THEN Result(fs, <<>>, "FileNotFoundError")
    ELSE LET rho == Dec(RhoRunParametric, 0)
             s1 == SubTail(fs[f].lines, "mu", 14, PyStr(viscosity))
             s2 == SubTail(s1, "nu0", 9, KinematicText(viscosity, rho))
             s3 == SubTail(s2, "nuInf", 7,
                           KinematicText(viscosity, Dec(3 * rho.n, 0)))
         IN  Result([fs EXCEPT ![f] = File(s3)], <<>>, "none")

\* The contactAngle patches generate_alpha_with_config writes, each with the
\* configuration key its theta0 is taken from.
PatchAngles ==
    << <<"substrate", "CA_substrate">>,
       <<"wall_isolant_left", "CA_left">>,
       <<"wall_isolant_right", "CA_right">>,
       <<"top_isolant_left", "CA_left">>,
       <<"top_isolant_right", "CA_right">>,
       <<"wall_buse_left_int", "CA_buse_int">>,
       <<"wall_buse_left_ext", "CA_buse_ext">>,
       <<"wall_buse_right_int", "CA_buse_int">>,
       <<"wall_buse_right_ext", "CA_buse_ext">> >>

\* One patch block of the boundaryField text; theta0 is f"{config[...]}".
PatchBlock(name, angle) ==
    << Txt(4, <<name>>),
       Txt(4, <<"{">>),
       KV(8, <<"type">>, 12, Sym("contactAngle"), ""),
       KV(8, <<"theta0">>, 10, PyStr(angle), ""),
       Txt(4, <<"}">>) >>

RECURSIVE PatchBlocks(_, _)
PatchBlocks(patches, config) ==
    IF patches = <<>> THEN <<>>
    ELSE PatchBlock(Head(patches)[1], config[Head(patches)[2]])
         \o PatchBlocks(Tail(patches), config)

\* generate_alpha_with_config(case_dir, config): 0/alpha.water is written
\* anew; the angles of config are the floats read_csv_configs made.
GenerateAlphaWithConfig(fs, config) ==
    Result([fs EXCEPT !["alpha.water"] =
               File(<<Txt(0, <<"boundaryField">>), Txt(0, <<"{">>)>>
                    \o PatchBlocks(PatchAngles, config)
                    \o <<Txt(0, <<"}">>)>>)],
           <<>>, "none")

(* ---------------- gui.py: nested blocks, rheology, batch -------------- *)

\* angle_params.get(name): the value of the first entry named name.
Lookup(params, name) ==
    LET i == CHOOSE i \in DOMAIN params : params[i].k = name
    IN  params[i].v

Has(params, name) == \E i \in DOMAIN params : params[i].k = name

\* stripped.startswith(word)
StartsWith(line, word) == Len(line.key) >= 1 /\ line.key[1] = word

\* f"        theta0          {int(float(angle))};"
ThetaLine(angle) == KV(8, <<"theta0">>, 10, Dec(Trunc(PyFloat(angle)), 0), "")

\* float(angle) succeeds: the angle is a number or a number text.
IsFloatable(angle) == angle.k \in {"dec", "sci"}

\* A scanner that never sees the end of a block.
BlockNeverEnds(line) == FALSE

\* elif stripped.startswith('}'), as line 169 is read.
BlockEnds(line) == StartsWith(line, "}")

\* A scanner that forgets the line instead of copying it.
DropLine(new_lines, line) == new_lines

\* new_lines.append(line)
CopyLine(new_lines, line) == Append(new_lines, line)

RECURSIVE ScanBlocks(_, _, _, _)
\* The loop of _modify_alpha_water_robust; st holds in_target_block,
\* current_surface, new_lines, the messages and the exception raised.  The
\* test of line 169 is read as stripped.startswith('}').
ScanBlocks(lines, angle_params, st, f) ==
    IF lines = <<>> \/ st.exc # "none" THEN st
    ELSE LET line == Head(lines)
             enters == /\ ~st.in_target_block
                       /\ line.kind = "txt"
                       /\ Len(line.key) = 1
                       /\ Has(angle_params, line.key)
             inside == st.in_target_block \/ enters
             surface == IF enters THEN line.key ELSE st.current_surface
         IN  IF inside /\ StartsWith(line, "theta0")
             THEN IF ~IsFloatable(Lookup(angle_params, surface))
                  THEN [st EXCEPT !.exc = "ValueError"]
                  ELSE ScanBlocks(Tail(lines), angle_params,
                     [st EXCEPT !.in_target_block = TRUE,
                                !.current_surface = surface,
                                !.new_lines = Append(@, ThetaLine(Lookup(angle_params, surface))),
                                !.out = Append(@, LogEntry("applied", surface, f))],
                     f)
             ELSE IF inside /\ BlockEnds(line)
             THEN ScanBlocks(Tail(lines), angle_params,
                     [st EXCEPT !.in_target_block = FALSE,
                                !.current_surface = <<>>,
                                !.new_lines = CopyLine(@, line)], f)
             ELSE ScanBlocks(Tail(lines), angle_params,
                     [st EXCEPT !.in_target_block = inside,
                                !.current_surface = surface,
                                !.new_lines = CopyLine(@, line)], f)

\* _modify_alpha_water_robust(angle_params): 0/alpha.water.  A ValueError of
\* int(float(angle)) leaves the loop before write_text; the messages already
\* appended stay in self.log.
ModifyAlphaWaterRobust(fs, angle_params) ==
    LET f == "alpha.water" IN
    IF ~fs[f].exists
    THEN Result(fs, <<LogEntry("nofile", <<>>, f)>>, "none")
    ELSE LET st == ScanBlocks(fs[f].lines, angle_params,
                              [in_target_block |-> FALSE, current_surface |-> <<>>,
                               new_lines |-> <<>>, out |-> <<>>, exc |-> "none"], f)
         IN  IF st.exc # "none" THEN Result(fs, st.out, st.exc)
             ELSE Result([fs EXCEPT ![f] = File(st.new_lines)], st.out, "none")

\* param_map of _modify_rheology.
GuiRheologyMap ==
    [eta0 |-> <<"nu0">>, eta_inf |-> <<"nuInf">>, lambda |-> <<"k">>, n |-> <<"n">>]

RECURSIVE RheologyParams(_, _)
\* mt_water_params / tr_params: the kinematic text for eta0 and eta_inf,
\* str(value) for the others; a name outside param_map is dropped.
RheologyParams(rheology_params, rho) ==
    IF rheology_params = <<>> THEN <<>>
    ELSE LET p == Head(rheology_params)
             rest == RheologyParams(Tail(rheology_params), rho)
         IN  IF p.k \notin DOMAIN GuiRheologyMap THEN rest
             ELSE <<Param(GuiRheologyMap[p.k],
                          IF p.k \in {"eta0", "eta_inf"}
                          THEN KinematicText(p.v, rho) ELSE PyStr(p.v))>> \o rest

\* r, then op on the directory r left, unless r raised.
Then(r, op(_)) ==
    IF r.exc # "none" THEN r
    ELSE LET r2 == op(r.fs) IN Result(r2.fs, r.out \o r2.out, r2.exc)

\* _modify_rheology(rheology_params) with RHO_INK of the session parameters.
ModifyRheology(fs, rheology_params, rho) ==
    LET ps == RheologyParams(rheology_params, RhoOrDefault(rho))
    IN  Then(ApplyParams(fs, "momentumTransport.water", ps),
             LAMBDA g : ApplyParams(g, "transportProperties", ps))

\* apply_all(params): params['physical']['rho_ink'] of line 55 raises
\* KeyError when the snapshot holds no rho_ink, after the pass over
\* physicalProperties.air.
ApplyAll(fs, params) ==
    LET phys_air == <<Param(<<"rho">>, PyStr(params.rho_air)),
                      Param(<<"nu">>, PyStr(params.nu_air))>>
        phys_water ==
            <<Param(<<"rho">>, PyStr(params.rho_ink))>>
            \o (IF Has(params.rheology, "eta0")
                THEN <<Param(<<"nu">>,
                             KinematicText(Lookup(params.rheology, "eta0"),
                                           params.rho_ink))>>
                ELSE <<>>)
        control == params.numerical
                   \o (IF Has(params.process, "end_time")
                       THEN <<Param(<<"endTime">>,
                                    PyStr(Lookup(params.process, "end_time")))>>
                       ELSE <<>>)
        r1 == ApplyParams(fs, "physicalProperties.air", phys_air)
        r2 == Then(r1, LAMBDA g :
                       IF params.rho_ink = None THEN Result(g, <<>>, "KeyError")
                       ELSE ApplyParams(g, "physicalProperties.water", phys_water))
        r3 == Then(r2, LAMBDA g : ModifyRheology(g, params.rheology, params.rho_ink))
        r4 == Then(r3, LAMBDA g : ModifyAlphaWaterRobust(g, params.contact_angles))
        r5 == Then(r4, LAMBDA g : ApplyParams(g, "phaseProperties", params.surface))
    IN  Then(r5, LAMBDA g : ApplyParams(g, "controlDict", control))

(* ------------------------ the case directory -------------------------- *)

FileNames ==
    {"physicalProperties.air", "physicalProperties.water",
     "momentumTransport.water", "transportProperties", "phaseProperties",
     "controlDict", "alpha.water", "parameters"}

\* The template tree every case directory is copied from.  controlDict and
\* parameters hold endTime twice; alpha.water holds a statement whose value
\* is preceded by two words, and theta0 twice in its substrate block, the
\* second time indented by four columns.
Template ==
    [f \in FileNames |->
        CASE f = "physicalProperties.air" ->
                << KV(0, <<"viscosityModel">>, 2, Sym("constant"), ""),
                   KV(0, <<"rho">>, 13, Dec(12, 1), ""),
                   KV(0, <<"nu">>, 14, Sci(833, 2, -6), "") >>
          [] f = "physicalProperties.water" ->
                << KV(0, <<"viscosityModel">>, 2, Sym("BirdCarreau"), ""),
                   KV(0, <<"rho">>, 13, Dec(3000, 0), ""),
                   KV(0, <<"nu">>, 14, Sci(10, 1, -4), "") >>
          [] f = "momentumTransport.water" ->
                << Txt(0, <<"BirdCarreauCoeffs">>),
                   Txt(0, <<"{">>),
                   KV(4, <<"nu0">>, 3, Sci(10, 1, -4), ""),
                   KV(4, <<"nuInf">>, 1, Sci(5567, 3, -5), ""),
                   KV(4, <<"k">>, 5, Dec(15, 2), ""),
                   Txt(0, <<"}">>) >>
          [] f = "transportProperties" ->
                << KV(0, <<"nu0">>, 3, Sci(10, 1, -4), ""),
                   KV(0, <<"nuInf">>, 1, Sci(5567, 3, -5), ""),
                   KV(0, <<"mu">>, 14, Dec(15, 1), " // Pa.s"),
                   KV(0, <<"sigma">>, 11, Dec(4, 2), "") >>
          [] f = "phaseProperties" ->
                << Txt(0, <<"phases", "(water", "air);">>),
                   KV(0, <<"sigma">>, 11, Dec(4, 2), "") >>
          [] f = "controlDict" ->
                << KV(0, <<"application">>, 5, Sym("foamRun"), ""),
                   KV(0, <<"endTime">>, 9, Dec(1, 1), ""),
                   KV(0, <<"deltaT">>, 10, Sci(1, 0, -6), ""),
                   KV(0, <<"endTime">>, 9, Dec(1, 1), " // repeated") >>
          [] f = "alpha.water" ->
                << Txt(0, <<"boundaryField">>),
                   Txt(0, <<"{">>),
                   Txt(4, <<"substrate">>),
                   Txt(4, <<"{">>),
                   KV(8, <<"theta0">>, 10, Dec(35, 0), ""),
                   KV(8, <<"value", "uniform">>, 1, Dec(0, 0), ""),
                   KV(4, <<"theta0">>, 10, Dec(35, 0), " // repeated"),
                   Txt(4, <<"}">>),
                   Txt(4, <<"atmosphere">>),
                   Txt(4, <<"{">>),
                   KV(8, <<"theta0">>, 10, Dec(90, 0), ""),
                   Txt(4, <<"}">>),
                   Txt(0, <<"}">>) >>
          [] OTHER ->
                << KV(0, <<"rho_ink">>, 9, Dec(3000, 0), ""),
                   KV(0, <<"eta_0">>, 11, Dec(5, 1), ""),
                   KV(0, <<"nu_0">>, 3, Sci(10, 1, -4), ""),
                   KV(0, <<"CA_substrate">>, 4, Dec(35, 0), " // degrees"),
                   KV(0, <<"endTime">>, 9, Dec(1, 1), ""),
                   KV(0, <<"endTime">>, 9, Dec(1, 1), " // repeated"),
                   KV(0, <<"ratio_surface">>, 3, Dec(10, 1), ""),
                   KV(0, <<"y_buse">>, 10, Dec(341, 3), ""),
                   KV(0, <<"y_buse_bottom">>, 3, Dec(198, 3), ""),
                   KV(0, <<"y_buse_top">>, 6, Dec(539, 3), ""),
                   KV(0, <<"y_buse_top_m">>, 4, Dec(539, 6), ""),
                   KV(0, <<"y_ink">>, 11, Dec(341, 3), ""),
                   KV(0, <<"y_ink_top">>, 7, Dec(539, 3), ""),
                   KV(0, <<"y_ink_top_m">>, 5, Dec(539, 6), ""),
                   KV(0, <<"x_gap_buse">>, 6, Dec(0, 1), ""),
                   KV(0, <<"x_gap_buse_m">>, 4, Dec(0, 6), ""),
                   KV(0, <<"dispense_time">>, 3, Dec(4, 2), ""),
                   KV(0, <<"dispense_velocity">>, 3, Dec(8525, 6), ""),
                   KV(0, <<"dispense_end">>, 8, Dec(4, 2), "") >>]

\* The files a case directory may lack when an operation starts: none, one
\* of the files an operation opens first, or the leading files of the batch
\* of apply_all.
MissingChoices ==
    { {}, {"physicalProperties.air"}, {"transportProperties"}, {"parameters"},
      {"alpha.water"},
      {"physicalProperties.air", "physicalProperties.water",
       "momentumTransport.water", "transportProperties"} }

CaseDir(missing) ==
    [f \in FileNames |-> IF f \in missing THEN Missing ELSE File(Template[f])]

\* A complete case directory whose system/parameters holds y_buse_bottom and
\* y_ink with a second decimal point (0.19.8 and 0.34.1).
MalformedDir ==
    [CaseDir({}) EXCEPT
        !["parameters"] =
            File([j \in DOMAIN Template["parameters"] |->
                    LET line == Template["parameters"][j] IN
                    IF line.key = <<"y_buse_bottom">>
                    THEN [line EXCEPT !.val = Bad("0.19.8")]
                    ELSE IF line.key = <<"y_ink">>
                    THEN [line EXCEPT !.val = Bad("0.34.1")]
                    ELSE line])]

\* A complete case directory whose 0/alpha.water holds, in its wall_buse
\* block, a brace-delimited sub-block before the theta0 statement.
NestedDir ==
    [CaseDir({}) EXCEPT
        !["alpha.water"] =
            File(<< Txt(0, <<"boundaryField">>),
                    Txt(0, <<"{">>),
                    Txt(4, <<"wall_buse">>),
                    Txt(4, <<"{">>),
                    Txt(8, <<"limit">>),
                    Txt(8, <<"{">>),
                    KV(12, <<"method">>, 6, Sym("gradient"), ""),
                    Txt(8, <<"}">>),
                    KV(8, <<"theta0">>, 10, Dec(70, 0), ""),
                    Txt(4, <<"}">>),
                    Txt(4, <<"substrate">>),
                    Txt(4, <<"{">>),
                    KV(8, <<"theta0">>, 10, Dec(35, 0), ""),
                    Txt(4, <<"}">>),
                    Txt(0, <<"}">>) >>)]

(* ------------------------------ inputs -------------------------------- *)

\* Dynamic viscosities [Pa.s]: 0.5, 0.167.
Viscosities == {Dec(5, 1), Dec(167, 3)}

\* Ink densities [kg/m3]: 3000, 1200.
Densities == {Dec(3000, 0), Dec(1200, 0)}

\* Contact angles [degrees]: 34.6, 60.
Angles == {Dec(346, 1), Dec(60, 0)}

\* Nozzle heights [mm]: 0.4, 0.4003.
Heights == {Dec(4, 1), Dec(4003, 4)}

\* (file, params_to_set) of a call of _apply_params_line_by_line: keys the
\* file holds, keys it lacks, a key it holds twice, two keys matching one line.
PassCases ==
    { <<"physicalProperties.air", <<Param(<<"rho">>, Dec(13, 1))>> >>,
      <<"physicalProperties.air",
        <<Param(<<"rho">>, Dec(13, 1)), Param(<<"zeta">>, Dec(1, 0))>> >>,
      <<"physicalProperties.air", <<Param(<<"zeta">>, Dec(1, 0))>> >>,
      <<"controlDict", <<Param(<<"endTime">>, Dec(2, 1))>> >>,
      <<"alpha.water",
        <<Param(<<"value">>, Sym("uniform 1")),
          Param(<<"value", "uniform">>, Dec(1, 0))>> >> }

\* rheology sections of the GUI parameters.
RheologySets ==
    { <<Param("eta0", Dec(5, 1))>>,
      <<Param("eta0", Dec(15, 1)), Param("lambda", Dec(15, 2))>> }

\* contact_angles sections of the GUI parameters.
AngleSets ==
    { <<Param(<<"substrate">>, Dec(346, 1))>>,
      <<Param(<<"substrate">>, Dec(60, 0)), Param(<<"wall_buse">>, Dec(90, 0))>>,
      <<Param(<<"substrate">>, Sym("abc"))>> }

\* The parameters apply_all is called with.
GuiParams ==
    { [rho_air |-> Dec(12, 1), nu_air |-> Sci(833, 2, -6), rho_ink |-> rho,
       rheology |-> rh, contact_angles |-> <<Param(<<"substrate">>, Dec(346, 1))>>,
       surface |-> <<Param(<<"sigma">>, Dec(5, 2))>>,
       numerical |-> <<Param(<<"deltaT">>, Sci(1, 0, -6))>>,
       process |-> <<Param("end_time", Dec(2, 1))>>] :
       rho \in {Dec(3000, 0), None}, rh \in RheologySets }

\* Rows of parametric_study.csv, the angles as read_csv_configs reads them.
Configs ==
    { [CA_left |-> PyFloat(a), CA_right |-> PyFloat(a), CA_substrate |-> PyFloat(a),
       CA_buse_int |-> PyFloat(Dec(90, 0)), CA_buse_ext |-> PyFloat(Dec(180, 0))] :
       a \in Angles }

\* Study files of config/studies: grid sweeps, a simple sweep and a grid
\* sweep without parameters; start_index 1 or 5, with or without overrides.
Sweeps ==
    { [sweep_type |-> "grid",
       parameters |-> << [name |-> <<"rheology", "eta0">>,
                          values |-> <<Dec(5, 1), Dec(15, 1)>>],
                         [name |-> <<"contact_angles", "substrate">>,
                          values |-> <<Dec(35, 0), Dec(346, 1), Dec(90, 0)>>] >>],
      [sweep_type |-> "grid",
       parameters |-> << [name |-> <<"geometry", "y_buse">>,
                          values |-> <<Dec(4, 1), Dec(3, 1)>>],
                         [name |-> <<"rheology", "eta0">>,
                          values |-> <<Dec(5, 1)>>],
                         [name |-> <<"process", "dispense_time">>,
                          values |-> <<Dec(5, 2), Dec(4, 2)>>] >>],
      [sweep_type |-> "grid",
       parameters |-> << [name |-> <<"process", "dispense_time">>,
                          values |-> <<Dec(5, 2)>>],
                         [name |-> <<"geometry", "y_buse">>,
                          values |-> <<Dec(4, 1)>>] >>],
      [sweep_type |-> "grid", parameters |-> <<>>],
      [sweep_type |-> "simple", parameter |-> <<"rheology", "eta0">>,
       values |-> <<Dec(5, 1), Dec(167, 3), Dec(15, 1)>>] }

StudyConfigs ==
    { [sweep |-> sw, start_index |-> si, overrides |-> ov, dry_run |-> dr] :
        sw \in Sweeps, si \in {1, 5}, dr \in BOOLEAN,
        ov \in { <<>>, <<Param(<<"process", "end_time">>, Dec(2, 1))>> } }

\* No study is running.
NoStudy ==
    [pc |-> "none", config |-> <<>>, combinations |-> <<>>, pos |-> 0,
     todo |-> <<>>, calls |-> <<>>, summary |-> <<>>, alive |-> {},
     launched |-> <<>>, stale |-> {}, dirs |-> {}, ended |-> {}, vtk |-> {},
     gifs |-> {}, report |-> [lines |-> <<>>, exc |-> "none"]]

\* watch_study is not running.
NoWatch ==
    [pc |-> "off", processed |-> {}, run_dirs |-> {}, queue |-> <<>>,
     completed |-> 0, with_gif |-> 0, seen |-> {}, failed |-> 0,
     last |-> [run |-> 0, vtk |-> "none", gif |-> "none"]]

(* ----------------------------- behaviour ------------------------------ *)

Init ==
    /\ \/ \E missing \in MissingChoices : files = CaseDir(missing)
       \/ files = MalformedDir
       \/ files = NestedDir
    /\ log = <<>>
    /\ hist = <<>>
    /\ study = NoStudy
    /\ watch = NoWatch

\* One operation: it acts on the directory, its messages join the log and the
\* call is recorded with the directory it started from.
Do(op, params, r) ==
    /\ Len(hist) < MaxSteps
    /\ files' = r.fs
    /\ log' = log \o r.out
    /\ hist' = Append(hist, [op |-> op, params |-> params, pre |-> files,
                             out |-> r.out, exc |-> r.exc])
    /\ UNCHANGED <<study, watch>>

GuiApplyParams ==
    \E c \in PassCases :
        Do("_apply_params_line_by_line", <<Param(c[1], c[2])>>,
           ApplyParams(files, c[1], c[2]))

GuiModifyRheology ==
    \E rh \in RheologySets, rho \in {Dec(3000, 0), None} :
        Do("_modify_rheology", <<Param(rh, rho)>>, ModifyRheology(files, rh, rho))

GuiModifyAlphaWaterRobust ==
    \E ap \in AngleSets :
        Do("_modify_alpha_water_robust", ap, ModifyAlphaWaterRobust(files, ap))

GuiApplyAll ==
    \E params \in GuiParams :
        Do("apply_all", <<Param("params", params)>>, ApplyAll(files, params))

SetRheology ==
    \E param \in {"eta0", "lambda"}, value \in Viscosities,
       rho \in Densities \cup {None} :
        /\ param = "lambda" => (value = Dec(5, 1) /\ rho = Dec(3000, 0))
        /\ rho = None => value = Dec(5, 1)
        /\ Do("rheology", <<Param(param, value), Param("rho", rho)>>,
              ModifyTransportProperties(files, param, value,
                                        GetRhoInk(WithRhoInk(CaseDir({}), rho))))

SetContactAngle ==
    \E surface \in {"substrate", "wall_buse"}, angle \in Angles :
        /\ surface = "wall_buse" => angle = Dec(60, 0)
        /\ Do("contact_angles", <<Param(surface, angle)>>,
              ModifyAlphaWater(files, surface, angle))

SetSurface ==
    \E value \in {Dec(5, 2)} :
        Do("surface", <<Param("sigma", value)>>,
           ModifySurfaceTension(files, "sigma", value))

SetNumerical ==
    \E param \in {"endTime", "maxCo"}, value \in {Dec(2, 1)} :
        Do("numerical", <<Param(param, value)>>,
           ModifyControlDict(files, param, value))

SetProcess ==
    \E value \in {Dec(5, 2)} :
        Do("process", <<Param("dispense_time", value)>>,
           ModifyProcess(files, "dispense_time", value))

SetGeometry ==
    \E param \in {"y_buse", "ratio_surface", "x_gap_buse"}, value \in Heights :
        /\ param # "y_buse" => value = Dec(4, 1)
        /\ Do("geometry", <<Param(param, value)>>,
              ModifyGeometry(files, param, value))

RunParametricViscosity ==
    \E viscosity \in Viscosities :
        Do("modify_transport_properties", <<Param("viscosity_Pa_s", viscosity)>>,
           RPModifyTransportProperties(files, PyFloat(viscosity)))

RunParametricAlpha ==
    \E config \in Configs :
        Do("generate_alpha_with_config", <<Param("config", config)>>,
           GenerateAlphaWithConfig(files, config))

Next ==
    \/ GuiApplyParams
    \/ GuiModifyRheology
    \/ GuiModifyAlphaWaterRobust
    \/ GuiApplyAll
    \/ SetRheology
    \/ SetContactAngle
    \/ SetSurface
    \/ SetNumerical
    \/ SetProcess
    \/ SetGeometry
    \/ RunParametricViscosity
    \/ RunParametricAlpha

Spec == Init /\ [][Next]_vars

(* ------------------------ behaviour of run_study ---------------------- *)

\* run_study is called for config; the directories in stale (none, or that
\* of the first run) are there from an earlier execution of the study, each
\* with a finished run.log, its VTK files and its GIF.
StartStudy(config, stale) ==
    [NoStudy EXCEPT !.pc = "start", !.config = config, !.stale = stale,
                    !.dirs = stale, !.ended = stale, !.vtk = stale,
                    !.gifs = stale]

StudyInit ==
    /\ files = CaseDir({})
    /\ log = <<>>
    /\ hist = <<>>
    /\ watch = NoWatch
    /\ \E config \in StudyConfigs :
           \E stale \in { {}, {config.start_index} } :
               study = StartStudy(config, stale)

\* The index of the run the loop is at.
RunIndex == Enumerate(study.config.start_index, study.pos)

\* A loop that would stay on a combination whose run did not end with OK.
FinishRetrying(status, alive) ==
    study' = [study EXCEPT
                !.summary = Append(@, [run |-> RunIndex,
                                       parameters |-> study.combinations[study.pos],
                                       status |-> status]),
                !.alive = alive,
                !.ended = IF status = "OK" THEN @ \cup {RunIndex} ELSE @,
                !.pos = IF status \in {"OK", "DRY_RUN"} THEN @ + 1 ELSE @,
                !.pc = "loop", !.todo = <<>>, !.calls = <<>>]

\* results_summary.append({...}) and the next iteration.  A command that
\* returned 0 has left the end mark of foamRun in run.log.
Finish(status, alive) ==
    study' = [study EXCEPT
                !.summary = Append(@, [run |-> RunIndex,
                                       parameters |-> study.combinations[study.pos],
                                       status |-> status]),
                !.alive = alive, !.pos = @ + 1, !.pc = "loop",
                !.ended = IF status = "OK" THEN @ \cup {RunIndex} ELSE @,
                !.todo = <<>>, !.calls = <<>>]

\* run_study up to the loop: the sweep is read and its combinations built; a
\* sweep without parameters or values ends the call.
LoadStudy ==
    /\ study.pc = "start"
    /\ LET c == Combinations(study.config.sweep) IN
       study' = [study EXCEPT !.pc = IF c.valid THEN "loop" ELSE "invalid",
                              !.combinations = c.list, !.pos = 1]
    /\ UNCHANGED <<files, log, hist, watch>>

\* A loop that takes every study for a real one.
DryRunIgnored(config) == FALSE

\* if dry_run:
DryRun(config) == config.dry_run

\* The head of one iteration: a dry run only records the combination;
\* otherwise run_dir is removed if it is there and the three template
\* directories are copied into it.  After the last combination summary.json
\* is written.
BeginRun ==
    /\ study.pc = "loop"
    /\ IF study.pos > Len(study.combinations)
       THEN study' = [study EXCEPT !.pc = "done"] /\ UNCHANGED files
       ELSE IF DryRun(study.config)
       THEN Finish("DRY_RUN", study.alive) /\ UNCHANGED files
       ELSE /\ files' = CaseDir({})
            /\ study' = [study EXCEPT
                            !.pc = "patch",
                            !.dirs = @ \cup {RunIndex},
                            !.ended = @ \ {RunIndex},
                            !.vtk = @ \ {RunIndex},
                            !.calls = <<>>,
                            !.todo = [n \in DOMAIN study.combinations[study.pos] |->
                                          study.combinations[study.pos][n]]
                                     \o study.config.overrides]
    /\ UNCHANGED <<log, hist, watch>>

\* One modifier.set_parameter(param_path, value) of the two loops; an
\* exception it raises leaves run_study.
PatchRun ==
    /\ study.pc = "patch"
    /\ study.todo # <<>>
    /\ LET call == Head(study.todo)
           r == SetParameter(files, call.k, call.v, GetRhoInk(CaseDir({})))
       IN  /\ files' = r.fs
           /\ log' = log \o r.out
           /\ study' = [study EXCEPT
                           !.pc = IF r.exc # "none" THEN "raised"
                                  ELSE IF Len(study.todo) = 1 THEN "launch"
                                  ELSE "patch",
                           !.todo = Tail(@),
                           !.calls = Append(@, call)]
    /\ UNCHANGED <<hist, watch>>

\* subprocess.run starts /bin/bash with blockMesh, setFields and foamRun, or
\* raises before anything runs (status EXCEPTION).
LaunchSolver ==
    /\ study.pc = "launch"
    /\ \/ study' = [study EXCEPT !.pc = "wait", !.alive = @ \cup {RunIndex},
                                 !.launched = Append(@, RunIndex)]
       \/ Failures(study.summary) < MaxFailures
          /\ Finish("EXCEPTION", study.alive)
    /\ UNCHANGED <<files, log, hist, watch>>

\* The command ends within the timeout, with return code 0 or not.
SolverReturns ==
    /\ study.pc = "wait"
    /\ \/ Finish("OK", study.alive \ {RunIndex})
       \/ Failures(study.summary) < MaxFailures
          /\ Finish("ERROR", study.alive \ {RunIndex})
    /\ UNCHANGED <<files, log, hist, watch>>

\* TimeoutExpired: subprocess.run kills the shell it started and raises; the
\* command the shell was running (blockMesh, setFields or foamRun) is a
\* child of that shell and is not signalled, so it may still be running.
SolverTimeout ==
    /\ study.pc = "wait"
    /\ Failures(study.summary) < MaxFailures
    /\ \/ Finish("TIMEOUT", study.alive)
       \/ Finish("TIMEOUT", study.alive \ {RunIndex})
    /\ UNCHANGED <<files, log, hist, watch>>

\* A command left behind by a timeout ends by itself; if it was foamRun and
\* ended normally, run.log now holds the end mark.
OrphanExits ==
    /\ study.pc \in {"loop", "patch", "launch", "wait", "done"}
    /\ \E i \in study.alive :
           /\ ~(study.pc = "wait" /\ i = RunIndex)
           /\ \E mark \in BOOLEAN :
                  study' = [study EXCEPT
                               !.alive = @ \ {i},
                               !.ended = IF mark THEN @ \cup {i} ELSE @]
    /\ UNCHANGED <<files, log, hist, watch>>

\* The keys status reads from every record of summary.json.
StatusFields == {"status", "run", "parameter", "value"}

\* The for loop of status over the records of summary.json: one line per
\* record, or the KeyError of the first key a record does not hold.
Status(summary) ==
    IF \E n \in DOMAIN summary : ~(StatusFields \subseteq DOMAIN summary[n])
    THEN LET n == CHOOSE n \in DOMAIN summary :
                      /\ ~(StatusFields \subseteq DOMAIN summary[n])
                      /\ \A m \in 1..(n - 1) : StatusFields \subseteq DOMAIN summary[m]
         IN  [lines |-> [m \in 1..(n - 1) |-> summary[m].run], exc |-> "KeyError"]
    ELSE [lines |-> [m \in DOMAIN summary |-> summary[m].run], exc |-> "none"]

\* status(study_name) once run_study has written summary.json.
ReadStatus ==
    /\ study.pc = "done"
    /\ study' = [study EXCEPT !.pc = "reported", !.report = Status(study.summary)]
    /\ UNCHANGED <<files, log, hist, watch>>

StudyNext ==
    \/ ReadStatus
    \/ LoadStudy
    \/ BeginRun
    \/ PatchRun
    \/ LaunchSolver
    \/ SolverReturns
    \/ SolverTimeout
    \/ OrphanExits

StudySpec == StudyInit /\ [][StudyNext]_vars

(* ------------------- watch_and_gif.py: watch_study -------------------- *)

RECURSIVE SortedDirs(_)
\* sorted([d for d in study_dir.iterdir() if ... startswith('run_')])
SortedDirs(S) ==
    IF S = {} THEN <<>>
    ELSE LET d == CHOOSE d \in S : \A m \in S : d <= m
         IN  <<d>> \o SortedDirs(S \ {d})

\* is_simulation_complete(run_dir): run.log is there and holds the end mark.
IsSimulationComplete(d) == d \in study.dirs /\ d \in study.ended

\* has_vtk(run_dir)
HasVtk(d) == d \in study.dirs /\ d \in study.vtk

\* has_gif(run_dir, study_dir): gifs/<run name>.gif of the study directory.
HasGif(d) == d \in study.gifs

\* A loop that ends once every listed run is complete.
ExitWhenCompleted(run_dirs, completed, with_gif) ==
    run_dirs # {} /\ completed = Cardinality(run_dirs)

\* run_dirs and completed == len(run_dirs) and with_gif == len(run_dirs)
ExitCondition(run_dirs, completed, with_gif) ==
    /\ run_dirs # {}
    /\ completed = Cardinality(run_dirs)
    /\ with_gif = Cardinality(run_dirs)

\* What generate_gif can answer: create_vof_gif.py returned 0 after it saved
\* the GIF; it returned 0 without a GIF (process_run returns (None, None) when
\* it finds no VTK file or renders no frame, and main ends normally); or it
\* returned another code.
GenerateOutcomes == {"made", "silent", "failed"}

\* generate_gif answers True: result.returncode == 0.
GenerateGifTrue(gen) == gen \in {"made", "silent"}

\* The head of one poll: the run directories are listed.
WatchList ==
    /\ watch.pc = "list"
    /\ watch' = [watch EXCEPT !.pc = "scan", !.run_dirs = study.dirs,
                              !.queue = SortedDirs(study.dirs),
                              !.completed = 0, !.with_gif = 0, !.seen = {}]
    /\ UNCHANGED <<files, log, hist, study>>

\* The body of the for loop for one run directory; convert_to_vtk answers
\* True ("ok", foamToVTK returned 0) or False ("failed").
WatchRun ==
    /\ watch.pc = "scan"
    /\ watch.queue # <<>>
    /\ LET d == Head(watch.queue)
           fresh == d \notin watch.processed
       IN
       IF ~IsSimulationComplete(d)
       THEN /\ watch' = [watch EXCEPT !.queue = Tail(@)]
            /\ UNCHANGED study
       ELSE IF ~fresh
       THEN /\ watch' = [watch EXCEPT
                            !.queue = Tail(@), !.completed = @ + 1,
                            !.with_gif = IF HasGif(d) THEN @ + 1 ELSE @,
                            !.seen = IF HasGif(d) THEN @ \cup {d} ELSE @]
            /\ UNCHANGED study
       ELSE \E conv \in IF HasVtk(d) THEN {"none"} ELSE {"ok", "failed"} :
            \E gen \in IF conv = "failed" \/ HasGif(d) THEN {"none"}
                       ELSE GenerateOutcomes :
               LET bad == (IF conv = "failed" THEN 1 ELSE 0)
                          + (IF gen \in {"silent", "failed"} THEN 1 ELSE 0)
                   gif == HasGif(d) \/ gen = "made"
                   add == /\ conv # "failed"
                          /\ (GenerateGifTrue(gen) \/ gen = "none")
               IN  /\ watch.failed + bad <= MaxFailures
                   /\ study' = [study EXCEPT
                                   !.vtk = IF conv = "ok" THEN @ \cup {d} ELSE @,
                                   !.gifs = IF gen = "made" THEN @ \cup {d} ELSE @]
                   /\ watch' = [watch EXCEPT
                                   !.queue = Tail(@), !.completed = @ + 1,
                                   !.processed = IF add THEN @ \cup {d} ELSE @,
                                   !.with_gif = IF conv # "failed" /\ gif
                                                THEN @ + 1 ELSE @,
                                   !.seen = IF conv # "failed" /\ gif
                                            THEN @ \cup {d} ELSE @,
                                   !.failed = @ + bad,
                                   !.last = [run |-> d, vtk |-> conv, gif |-> gen]]
    /\ UNCHANGED <<files, log, hist>>

\* The end of one poll: the loop is left, or sleeps and polls again.
WatchCheck ==
    /\ watch.pc = "scan"
    /\ watch.queue = <<>>
    /\ watch' = [watch EXCEPT
                    !.pc = IF ExitCondition(watch.run_dirs, watch.completed,
                                            watch.with_gif)
                           THEN "done" ELSE "list"]
    /\ UNCHANGED <<files, log, hist, study>>

\* watch_study and run_study are started on the same study, a simple sweep
\* of two values, run dry or not.
WatchInit ==
    /\ files = CaseDir({})
    /\ log = <<>>
    /\ hist = <<>>
    /\ watch = [NoWatch EXCEPT !.pc = "list"]
    /\ \E dry_run \in BOOLEAN, stale \in { {}, {1} } :
           study = StartStudy([sweep |-> [sweep_type |-> "simple",
                                          parameter |-> <<"rheology", "eta0">>,
                                          values |-> <<Dec(5, 1), Dec(15, 1)>>],
                               start_index |-> 1, overrides |-> <<>>,
                               dry_run |-> dry_run], stale)

WatchNext ==
    \/ StudyNext
    \/ WatchList
    \/ WatchRun
    \/ WatchCheck

WatchSpec == WatchInit /\ [][WatchNext]_vars

\* The loop of watch_study goes on: every poll is followed by the next.
WatchFairSpec ==
    WatchSpec /\ WF_vars(WatchList) /\ WF_vars(WatchRun) /\ WF_vars(WatchCheck)

(* ------------------------------ history ------------------------------- *)

\* The directory operation i left behind.
Post(i) == IF i < Len(hist) THEN hist[i + 1].pre ELSE files

\* Step i is a call of _apply_params_line_by_line on a file that exists.
IsGuiPass(i) ==
    /\ hist[i].op = "_apply_params_line_by_line"
    /\ hist[i].pre[hist[i].params[1].k].exists

PassFile(i) == hist[i].params[1].k

PassParams(i) == hist[i].params[1].v

\* Step i is _modify_control_dict on a system/parameters that exists.
IsNumericalPass(i) ==
    /\ hist[i].op = "numerical"
    /\ hist[i].pre["parameters"].exists

KeyPresent(lines, k) == \E j \in DOMAIN lines : GuiMatch(k, lines[j])

HasEntry(out, st, key, f) ==
    \E n \in DOMAIN out : out[n] = LogEntry(st, key, f)

(* ------------------------------- claims ------------------------------- *)

\* C1: a key-value patch pass whose requested keys all occur in the file
\* rewrites exactly the lines whose statement key is a requested key, each
\* with the requested value at its own position and indentation, and leaves
\* every other line identical.
C1_PatchRewritesRequestedLines ==
    \A i \in DOMAIN hist :
        (/\ IsGuiPass(i)
         /\ \A n \in DOMAIN PassParams(i) :
                KeyPresent(hist[i].pre[PassFile(i)].lines, PassParams(i)[n].k))
        => LET old == hist[i].pre[PassFile(i)].lines
               new == Post(i)[PassFile(i)].lines
           IN  /\ Len(new) = Len(old)
               /\ \A j \in DOMAIN old :
                      LET m == FirstMatch(PassParams(i), old[j], 1)
                      IN  IF m = 0 THEN new[j] = old[j]
                          ELSE /\ new[j] = FormatLine(old[j], PassParams(i)[m])
                               /\ new[j].ind = old[j].ind
               /\ \A f \in FileNames \ {PassFile(i)} : Post(i)[f] = hist[i].pre[f]

\* C2: a requested key that matches no line of an existing file gets a
\* not-found record and no applied record, and a pass none of whose keys is
\* present leaves the file as it was.
C2_AbsentKeysReportedNotFound ==
    \A i \in DOMAIN hist :
        /\ IsGuiPass(i) =>
              LET f == PassFile(i)
                  old == hist[i].pre[f].lines
                  ps == PassParams(i)
              IN  /\ \A n \in DOMAIN ps :
                         ~KeyPresent(old, ps[n].k)
                         => /\ HasEntry(hist[i].out, "notfound", ps[n].k, f)
                            /\ ~HasEntry(hist[i].out, "applied", ps[n].k, f)
                  /\ (\A n \in DOMAIN ps : ~KeyPresent(old, ps[n].k))
                         => Post(i)[f] = hist[i].pre[f]
        /\ IsNumericalPass(i) =>
              LET f == "parameters"
                  old == hist[i].pre[f].lines
                  param == hist[i].params[1].k
              IN  (\A j \in DOMAIN old : ~RunnerMatch(old[j], param))
                  => /\ HasEntry(hist[i].out, "notfound", <<param>>, f)
                     /\ ~HasEntry(hist[i].out, "applied", <<param>>, f)
                     /\ Post(i)[f] = hist[i].pre[f]

\* Steps i and i + 1 are the same substitution with the same inputs.
SamePassTwice(i) ==
    /\ i + 1 \in DOMAIN hist
    /\ hist[i].op = hist[i + 1].op
    /\ hist[i].op \in {"_apply_params_line_by_line", "numerical", "contact_angles"}
    /\ hist[i].params = hist[i + 1].params

\* C3: the same substitution applied twice in a row leaves the content of the
\* first pass, and the second pass reports as applied every key the first
\* pass reported as applied.
C3_SecondPassIdempotent ==
    \A i \in DOMAIN hist :
        SamePassTwice(i)
        => /\ Post(i + 1) = Post(i)
           /\ \A n \in DOMAIN hist[i].out :
                  hist[i].out[n].st = "applied"
                  => /\ HasEntry(hist[i + 1].out, "applied",
                                 hist[i].out[n].key, hist[i].out[n].file)
                     /\ ~HasEntry(hist[i + 1].out, "notfound",
                                  hist[i].out[n].key, hist[i].out[n].file)

\* The files the operation of step i opens for patching.
OpTargets(i) ==
    LET op == hist[i].op IN
    IF op = "_apply_params_line_by_line" THEN {PassFile(i)}
    ELSE IF op = "_modify_rheology"
    THEN {"momentumTransport.water", "transportProperties"}
    ELSE IF op = "_modify_alpha_water_robust" THEN {"alpha.water"}
    ELSE IF op = "apply_all"
    THEN {"physicalProperties.air", "physicalProperties.water",
          "momentumTransport.water", "transportProperties", "alpha.water",
          "phaseProperties", "controlDict"}
    ELSE IF op \in {"surface", "modify_transport_properties"}
    THEN {"transportProperties"}
    ELSE IF op \in {"rheology", "contact_angles", "numerical", "process",
                    "geometry"}
    THEN {"parameters"}
    ELSE {}

\* C4: a patch operation whose target file does not exist changes nothing for
\* that file, records a file-not-found outcome and does not raise; the
\* targets of the same batch that do exist are still processed.
C4_MissingFileLoggedAndSkipped ==
    \A i \in DOMAIN hist :
        \A f \in OpTargets(i) :
            ~hist[i].pre[f].exists
            => /\ Post(i)[f] = hist[i].pre[f]
               /\ hist[i].exc = "none"
               /\ \E n \in DOMAIN hist[i].out :
                      hist[i].out[n].st = "nofile" /\ hist[i].out[n].file = f
               /\ \A g \in OpTargets(i) :
                      hist[i].pre[g].exists
                      => \E n \in DOMAIN hist[i].out :
                             /\ hist[i].out[n].file = g
                             /\ hist[i].out[n].st \in {"applied", "notfound"}

\* The statements of a case directory that hold a contact angle.
IsAngleLine(f, line) ==
    /\ line.kind = "kv"
    /\ \/ f = "alpha.water" /\ line.key = <<"theta0">>
       \/ f = "parameters" /\ line.key = <<"CA_substrate">>

\* C5: every contact angle a case file holds is an integer literal with no
\* fractional part, whichever path wrote it.
C5_AnglesWrittenAsIntegers ==
    \A f \in {"alpha.water", "parameters"} :
        files[f].exists
        => \A j \in DOMAIN files[f].lines :
               IsAngleLine(f, files[f].lines[j])
               => IsIntegerLiteral(files[f].lines[j].val)

\* The number the first statement of key holds.
ValueOf(lines, key) == ToRat(TextValue(lines[SearchNumber(lines, key)].val))

TextOf(lines, key) == lines[SearchNumber(lines, key)].val

\* C6: after set_parameter('geometry.y_buse', h) on a parameters file holding
\* y_buse_bottom = b, the file holds y_buse = h, y_buse_top = b + h,
\* y_buse_top_m = (b + h) * 1e-3, y_ink = h and the y_ink_top mirrors; for
\* b = 0.198 and h = 0.4 the texts are 0.598 and 0.000598.
C6_DerivedHeightsConsistent ==
    \A i \in DOMAIN hist :
        (/\ hist[i].op = "geometry"
         /\ hist[i].params[1].k = "y_buse"
         /\ hist[i].pre["parameters"].exists)
        => LET new == Post(i)["parameters"].lines
               h == ToRat(hist[i].params[1].v)
               b == ValueOf(hist[i].pre["parameters"].lines, "y_buse_bottom")
               top == RatAdd(b, h)
           IN  /\ ValueOf(new, "y_buse") = h
               /\ ValueOf(new, "y_buse_top") = top
               /\ ValueOf(new, "y_buse_top_m") = RatMul(top, Rat(1, 1000))
               /\ ValueOf(new, "y_ink") = h
               /\ ValueOf(new, "y_ink_top") = ValueOf(new, "y_buse_top")
               /\ ValueOf(new, "y_ink_top_m") = ValueOf(new, "y_buse_top_m")
               /\ (b = Rat(198, 1000) /\ h = Rat(4, 10))
                      => /\ TextOf(new, "y_buse_top") = Dec(598, 3)
                         /\ TextOf(new, "y_buse_top_m") = Dec(598, 6)

RECURSIVE StripZeros(_, _)
\* n = c * 10^z with c not a multiple of ten (n > 0).
StripZeros(n, z) ==
    IF n % 10 = 0 THEN StripZeros(n \div 10, z + 1) ELSE [c |-> n, z |-> z]

\* float(v) is within relative error 1e-6 of d / r, for a number text v and
\* decimal texts d, r > 0: |v * r - d| <= d * 1e-6, in integers.
WithinRel(v, d, r) ==
    /\ IsNumberText(v)
    /\ LET rz == StripZeros(r.n, 0)
           t == (v.e - v.s) + (d.s - r.s) + rz.z
       IN  IF t < 0
           THEN Abs(v.n * rz.c - d.n * Pow10(-t))
                    <= (d.n * Pow10(-t)) \div 1000000
           ELSE Abs(v.n * rz.c * Pow10(t) - d.n) <= d.n \div 1000000

\* The kinematic statements step i is to write: file, key, dynamic value d
\* and density r.
KinematicWrites(i) ==
    LET op == hist[i].op
        ps == hist[i].params
        W(f, key, d, r) == [f |-> f, key |-> key, d |-> d, r |-> r]
        Gui(rh, rho) ==
            { W(f, GuiRheologyMap[rh[n].k][1], rh[n].v, rho) :
                  f \in {"momentumTransport.water", "transportProperties"},
                  n \in {m \in DOMAIN rh : rh[m].k \in {"eta0", "eta_inf"}} }
    IN  IF op = "rheology"
        THEN IF ps[1].k \in {"eta0", "eta_inf"}
             THEN {W("parameters", RheologyMap[ps[1].k][2], ps[1].v,
                     RhoOrDefault(ps[2].v))}
             ELSE {}
        ELSE IF op = "modify_transport_properties"
        THEN {W("transportProperties", "nu0", ps[1].v, Dec(RhoRunParametric, 0)),
              W("transportProperties", "nuInf", ps[1].v,
                Dec(3 * RhoRunParametric, 0))}
        ELSE IF op = "_modify_rheology" THEN Gui(ps[1].k, RhoOrDefault(ps[1].v))
        ELSE IF op = "apply_all"
        THEN Gui(ps[1].v.rheology, RhoOrDefault(ps[1].v.rho_ink))
             \cup { W("physicalProperties.water", "nu", ps[1].v.rheology[n].v,
                      RhoOrDefault(ps[1].v.rho_ink)) :
                        n \in {m \in DOMAIN ps[1].v.rheology :
                                   ps[1].v.rheology[m].k = "eta0"} }
        ELSE {}

\* The statements of key that step i changed in file f.
ChangedLines(i, f, key) ==
    LET old == hist[i].pre[f].lines
        new == Post(i)[f].lines
    IN  { j \in DOMAIN new :
              /\ new[j].kind = "kv"
              /\ Len(new[j].key) >= 1
              /\ new[j].key[Len(new[j].key)] = key
              /\ (j \notin DOMAIN old \/ old[j] # new[j]) }

Nu0Before == KV(0, <<"nu0">>, 3, Sci(10, 1, -4), "")

Nu0After == KV(0, <<"nu0">>, 3, Sci(1666667, 6, -4), "")

\* C8: a file holding the line "nu0   1.0e-04;" that _modify_rheology
\* patches for eta0 = 0.5 with density 3000 then holds exactly
\* "nu0   1.666667e-04;" in its place, and the outcome log of the call holds
\* exactly one applied entry for nu0 in that file.
C8_EndToEndNu0Scenario ==
    \A i \in DOMAIN hist :
        (/\ hist[i].op = "_modify_rheology"
         /\ Has(hist[i].params[1].k, "eta0")
         /\ Lookup(hist[i].params[1].k, "eta0") = Dec(5, 1)
         /\ hist[i].params[1].v = Dec(3000, 0))
        => \A f \in OpTargets(i) :
               \A j \in DOMAIN hist[i].pre[f].lines :
                   hist[i].pre[f].lines[j] = Nu0Before
                   => /\ j \in DOMAIN Post(i)[f].lines
                      /\ Post(i)[f].lines[j] = Nu0After
                      /\ Cardinality({n \in DOMAIN hist[i].out :
                             hist[i].out[n] = LogEntry("applied", <<"nu0">>, f)}) = 1

\* The lines of a file that carry key as their statement key, for the GUI
\* pass and for the runner's controlDict substitution.
GuiLinesOf(lines, k) == {j \in DOMAIN lines : GuiMatch(k, lines[j])}

RunnerLinesOf(lines, param) == {j \in DOMAIN lines : RunnerMatch(lines[j], param)}

\* The least element of a non-empty set of line numbers.
First(S) == CHOOSE j \in S : \A m \in S : j <= m

\* C9: in one patch pass, a requested key carried by several lines has its
\* first line rewritten with the requested value and every later line with
\* that key copied through unchanged.
C9_OnlyFirstDuplicateRewritten ==
    \A i \in DOMAIN hist :
        /\ (IsGuiPass(i) /\ hist[i].pre[PassFile(i)].exists)
           => LET old == hist[i].pre[PassFile(i)].lines
                  new == Post(i)[PassFile(i)].lines
                  ps == PassParams(i)
              IN  \A n \in DOMAIN ps :
                      LET S == GuiLinesOf(old, ps[n].k) IN
                      (Cardinality(S) >= 2
                       /\ \A j \in S : FirstMatch(ps, old[j], 1) = n)
                      => /\ Len(new) = Len(old)
                         /\ new[First(S)] = FormatLine(old[First(S)], ps[n])
                         /\ \A j \in S \ {First(S)} : new[j] = old[j]
        /\ (IsNumericalPass(i) /\ hist[i].pre["parameters"].exists)
           => LET old == hist[i].pre["parameters"].lines
                  new == Post(i)["parameters"].lines
                  S == RunnerLinesOf(old, hist[i].params[1].k)
              IN  Cardinality(S) >= 2
                  => /\ Len(new) = Len(old)
                     /\ new[First(S)].val = PyStr(hist[i].params[1].v)
                     /\ \A j \in S \ {First(S)} : new[j] = old[j]

\* The requested keys that match a line.
MatchingKeys(params, line) == {n \in DOMAIN params : GuiMatch(params[n].k, line)}

\* C10: in one substitution pass a line that several requested keys match is
\* rewritten once, with the value of the first matching requested key, and a
\* line no requested key matches is copied through.
C10_FirstMatchingKeyWins ==
    \A i \in DOMAIN hist :
        (IsGuiPass(i) /\ hist[i].pre[PassFile(i)].exists)
        => LET old == hist[i].pre[PassFile(i)].lines
               new == Post(i)[PassFile(i)].lines
               ps == PassParams(i)
           IN  /\ Len(new) = Len(old)
               /\ \A j \in DOMAIN old :
                      /\ Cardinality(MatchingKeys(ps, old[j])) >= 2
                         => new[j] = FormatLine(old[j], ps[First(MatchingKeys(ps, old[j]))])
                      /\ MatchingKeys(ps, old[j]) = {} => new[j] = old[j]

(* ------------------------- nested-block scan -------------------------- *)

\* The four files apply_all patches before it reaches the nested-block scan.
BeforeScan ==
    {"physicalProperties.air", "physicalProperties.water",
     "momentumTransport.water", "transportProperties"}

\* Step i ran the loop of _modify_alpha_water_robust over 0/alpha.water: a
\* direct call, or apply_all with nothing to patch before it.
IsScan(i) ==
    /\ hist[i].pre["alpha.water"].exists
    /\ \/ hist[i].op = "_modify_alpha_water_robust"
       \/ /\ hist[i].op = "apply_all"
          /\ \A f \in BeforeScan : ~hist[i].pre[f].exists

\* The angle_params of that scan.
ScanAngles(i) ==
    IF hist[i].op = "apply_all" THEN hist[i].params[1].v.contact_angles
    ELSE hist[i].params

\* Line a names a requested surface (stripped == surface_name).
IsNameLine(line, ap) == line.kind = "txt" /\ Len(line.key) = 1 /\ Has(ap, line.key)

\* The name lines before line j that no line beginning with } separates
\* from j.
Openers(lines, j, ap) ==
    { a \in 1..(j - 1) :
          /\ IsNameLine(lines[a], ap)
          /\ \A k \in (a + 1)..(j - 1) : ~StartsWith(lines[k], "}") }

\* The scanner is Inside a requested block at line j; Owner is the name line
\* of that block.
Inside(lines, j, ap) == Openers(lines, j, ap) # {}

Owner(lines, j, ap) == First(Openers(lines, j, ap))

C13_OneReplacementPerBlock ==
    \A i \in DOMAIN hist :
        (IsScan(i) /\ hist[i].exc = "none")
        => LET old == hist[i].pre["alpha.water"].lines
               new == Post(i)["alpha.water"].lines
               ap == ScanAngles(i)
               thetas == {j \in DOMAIN old :
                              StartsWith(old[j], "theta0") /\ Inside(old, j, ap)}
               blocks == {Owner(old, j, ap) : j \in thetas}
           IN  /\ \A j \in thetas :
                      (\E m \in thetas : m < j /\ Owner(old, m, ap) = Owner(old, j, ap))
                      => (j \in DOMAIN new /\ new[j] = old[j])
               /\ Cardinality({n \in DOMAIN hist[i].out :
                                   hist[i].out[n].st = "applied"
                                   /\ hist[i].out[n].file = "alpha.water"})
                      <= Cardinality(blocks)

(* ------------------------------ run_study ----------------------------- *)

\* The set_parameter calls run_study owes the current run directory: the
\* sweep parameters of the combination, then the overrides.
CallsOwed ==
    [n \in DOMAIN study.combinations[study.pos] |-> study.combinations[study.pos][n]]
    \o study.config.overrides

\* A step wrote into a case directory: the template copy or a set_parameter.
WritesCase ==
    \/ study.pc = "loop" /\ study'.pc = "patch"
    \/ study.pc = "patch" /\ study' # study

\* C14: in a non-dry run_study every set_parameter call of a combination
\* (sweep parameters, then overrides) is complete before its solver command
\* is launched, and no case directory is copied or patched while a solver
\* command is still running.
C14_PatchThenSolveSequentially ==
    /\ [](study.pc = "wait" => study.calls = CallsOwed)
    /\ [][WritesCase => study.alive = {}]_vars

(* -------------------------- malformed numbers ------------------------- *)

\* The statement of key in system/parameters that step i reads back holds a
\* text float() rejects.
ReadsMalformed(i, key) ==
    LET lines == hist[i].pre["parameters"].lines IN
    /\ hist[i].pre["parameters"].exists
    /\ SearchNumber(lines, key) # 0
    /\ lines[SearchNumber(lines, key)].val.k = "bad"

\* Step i meets a malformed number: y_buse_bottom read back by
\* _modify_geometry, y_ink read back by _modify_process, or an angle of the
\* nested-block scan that is not a number.
MeetsMalformed(i) ==
    \/ /\ hist[i].op = "geometry"
       /\ hist[i].params[1].k \in {"y_buse", "ratio_surface"}
       /\ ReadsMalformed(i, "y_buse_bottom")
    \/ /\ hist[i].op = "process"
       /\ hist[i].params[1].k = "dispense_time"
       /\ ReadsMalformed(i, "y_ink")
    \/ /\ IsScan(i)
       /\ \E n \in DOMAIN ScanAngles(i) :
              /\ ScanAngles(i)[n].v.k = "sym"
              /\ \E j \in DOMAIN hist[i].pre["alpha.water"].lines :
                     IsNameLine(hist[i].pre["alpha.water"].lines[j],
                                <<ScanAngles(i)[n]>>)

\* The statements whose new value would be derived from the malformed one.
DerivedKeys(i) ==
    IF hist[i].op = "geometry"
    THEN {<<"y_buse_top">>, <<"y_buse_top_m">>, <<"y_ink_top">>, <<"y_ink_top_m">>}
    ELSE IF hist[i].op = "process" THEN {<<"dispense_velocity">>}
    ELSE {<<"theta0">>}

DerivedFile(i) == IF IsScan(i) THEN "alpha.water" ELSE "parameters"

\* C15: a malformed number read back from a case file, or a malformed angle
\* given to the nested-block scan, is logged, the target derived from it is
\* left unmodified, and the call returns without an exception.
C15_MalformedNumberLoggedNotRaised ==
    \A i \in DOMAIN hist :
        MeetsMalformed(i)
        => /\ hist[i].exc = "none"
           /\ hist[i].out # <<>>
           /\ LET old == hist[i].pre[DerivedFile(i)].lines
                  new == Post(i)[DerivedFile(i)].lines
              IN  /\ Len(new) = Len(old)
                  /\ \A j \in DOMAIN old :
                         (old[j].kind = "kv" /\ old[j].key \in DerivedKeys(i))
                         => new[j] = old[j]

(* --------------------------- absent density --------------------------- *)

\* The density of the snapshot step i works from, for the operations that
\* convert a dynamic viscosity.
SnapshotRho(i) ==
    IF hist[i].op = "apply_all" THEN hist[i].params[1].v.rho_ink
    ELSE IF hist[i].op = "_modify_rheology" THEN hist[i].params[1].v
    ELSE hist[i].params[2].v

\* C16: when the snapshot holds no ink density, apply_all, _modify_rheology
\* and set_parameter('rheology. ...') complete without raising and every
\* kinematic value they write is the dynamic value divided by 3000.
C16_AbsentDensityFallsBackTo3000 ==
    \A i \in DOMAIN hist :
        (/\ hist[i].op \in {"apply_all", "_modify_rheology", "rheology"}
         /\ SnapshotRho(i) = None)
        => /\ hist[i].exc = "none"
           /\ \A w \in KinematicWrites(i) :
                  \A j \in ChangedLines(i, w.f, w.key) :
                      WithinRel(Post(i)[w.f].lines[j].val, w.d, Dec(3000, 0))

(* ---------------------------- the two files --------------------------- *)

\* The value texts the statements of key k hold in file f of directory fs.
TextsOf(fs, f, k) ==
    {fs[f].lines[j].val : j \in GuiLinesOf(fs[f].lines, k)}

\* C17: after _modify_rheology, each requested rheology key (nu0, nuInf, k,
\* n) that constant/momentumTransport.water and constant/transportProperties
\* both hold has the same value text in the two files.
C17_BothRheologyFilesAgree ==
    \A i \in DOMAIN hist :
        (/\ hist[i].op = "_modify_rheology"
         /\ Post(i)["momentumTransport.water"].exists
         /\ Post(i)["transportProperties"].exists)
        => \A n \in DOMAIN hist[i].params[1].k :
               LET k == GuiRheologyMap[hist[i].params[1].k[n].k]
                   a == TextsOf(Post(i), "momentumTransport.water", k)
                   b == TextsOf(Post(i), "transportProperties", k)
               IN  (a # {} /\ b # {}) => (a = b /\ Cardinality(a) = 1)

(* ------------------------- applied / not-found ------------------------ *)

\* The methods set_parameter dispatches to, and the key-value pass of the GUI.
KeyValueOps ==
    {"rheology", "contact_angles", "surface", "numerical", "process",
     "geometry", "_apply_params_line_by_line"}

\* A statement of lines carries one of the names as a word of its key.
Located(lines, names) ==
    \E j \in DOMAIN lines :
        /\ lines[j].kind = "kv"
        /\ \E n \in DOMAIN names, m \in DOMAIN lines[j].key :
               lines[j].key[m] = names[n]

\* C18: an applied outcome is emitted for a parameter only if a statement of
\* its key was located in the target file (so that a line was rewritten);
\* an outcome emitted for a key the file does not hold is not-found.
C18_AppliedOnlyWhenKeyLocated ==
    \A i \in DOMAIN hist :
        hist[i].op \in KeyValueOps
        => \A n \in DOMAIN hist[i].out :
               LET e == hist[i].out[n] IN
               (e.st \in {"applied", "notfound"} /\ hist[i].pre[e.file].exists)
               => (e.st = "applied" <=> Located(hist[i].pre[e.file].lines, e.key))

(* ------------------------- shape of a rewrite ------------------------- *)

\* C19: after any patch pass a rewritten line is still one statement with
\* the key and the leading indentation width it had, and the file has as
\* many lines as before, on the key-value paths and on the nested-block path.
C19_RewriteKeepsKeyIndentAndLineCount ==
    \A i \in DOMAIN hist :
        hist[i].op # "generate_alpha_with_config"
        => \A f \in FileNames :
               (hist[i].pre[f].exists /\ Post(i)[f].exists)
               => LET old == hist[i].pre[f].lines
                      new == Post(i)[f].lines
                  IN  /\ Len(new) = Len(old)
                      /\ \A j \in DOMAIN old :
                             new[j] # old[j]
                             => /\ new[j].kind = "kv"
                                /\ old[j].kind = "kv"
                                /\ new[j].key = old[j].key
                                /\ new[j].ind = old[j].ind

(* --------------------------- sweep products --------------------------- *)

RECURSIVE Count(_, _)
\* |V_m| * ... * |V_k| for the value lists from place m on.
Count(parameters, m) ==
    IF m > Len(parameters) THEN 1
    ELSE Len(parameters[m].values) * Count(parameters, m + 1)

\* The value parameter m takes in the n-th element of the Cartesian product
\* in product order: the digit of place m of n - 1 in the mixed radix of the
\* list lengths, the last list being the least significant.
ValueAt(parameters, m, n) ==
    parameters[m].values[
        (((n - 1) \div Count(parameters, m + 1)) % Len(parameters[m].values)) + 1]

\* The combination run_study owes as its n-th run.
ExpectedRun(sweep, n) ==
    IF sweep.sweep_type = "grid"
    THEN [m \in DOMAIN sweep.parameters |->
             Param(sweep.parameters[m].name, ValueAt(sweep.parameters, m, n))]
    ELSE <<Param(sweep.parameter, sweep.values[n])>>

ExpectedRuns(sweep) ==
    IF sweep.sweep_type = "grid" THEN Count(sweep.parameters, 1)
    ELSE Len(sweep.values)

\* C20: run_study processes one run per element of the Cartesian product of
\* the value lists of a grid sweep (one per listed value of a simple sweep),
\* each run giving one value to every parameter, numbered start_index,
\* start_index + 1, ... in product order; when it ends it has processed
\* exactly |V1| * ... * |Vk| runs.
C20_OneRunPerCombinationInOrder ==
    study.pc \in {"loop", "patch", "launch", "wait", "done"}
    => /\ Len(study.summary) <= ExpectedRuns(study.config.sweep)
       /\ \A n \in DOMAIN study.summary :
              /\ study.summary[n].run = study.config.start_index + n - 1
              /\ study.summary[n].parameters = ExpectedRun(study.config.sweep, n)
       /\ study.pc = "done"
          => Len(study.summary) = ExpectedRuns(study.config.sweep)

\* A grid sweep of three parameters with 2, 1 and 2 values, numbered from 5,
\* has run to its end with its four runs; so has a simple sweep.
C20_Witness ==
    /\ study.pc = "done"
    /\ study.config.sweep.sweep_type = "grid"
    /\ Len(study.config.sweep.parameters) = 3
    /\ study.config.start_index = 5
    /\ ~study.config.dry_run
    /\ Len(study.summary) = 4
    /\ study.summary[4].run = 8

\* The runs of the summary that ended with a failure status.
FailedRuns == {n \in DOMAIN study.summary :
                  study.summary[n].status \in {"ERROR", "TIMEOUT", "EXCEPTION"}}

\* How many times the solver command of run i was started.
Launches(i) == Cardinality({m \in DOMAIN study.launched : study.launched[m] = i})

\* C21: within one run_study call the solver command is started at most once
\* per combination; a run that returns non-zero, times out or raises is
\* recorded with status ERROR, TIMEOUT or EXCEPTION and is not started again;
\* the loop goes on to the next combination, and the summary written at the
\* end holds exactly one record per combination.
C21_EachCombinationLaunchedAtMostOnce ==
    /\ \A i, j \in DOMAIN study.launched :
           i # j => study.launched[i] # study.launched[j]
    /\ \A n \in DOMAIN study.summary :
           /\ study.summary[n].run = Enumerate(study.config.start_index, n)
           /\ study.summary[n].status \in {"OK", "ERROR", "TIMEOUT", "EXCEPTION", "DRY_RUN"}
           /\ study.summary[n].status \in {"OK", "ERROR", "TIMEOUT"}
                  => Launches(study.summary[n].run) = 1
           /\ study.summary[n].status \in {"EXCEPTION", "DRY_RUN"}
                  => Launches(study.summary[n].run) = 0
    /\ study.pc \in {"loop", "patch", "launch", "wait"}
           => Len(study.summary) = study.pos - 1
    /\ study.pc = "done" => Len(study.summary) = Len(study.combinations)

\* A finished study in which a failed run is followed by a run that ended OK.
C21_Witness ==
    /\ study.pc = "done"
    /\ \E n \in FailedRuns :
           /\ n < Len(study.summary)
           /\ study.summary[n + 1].status = "OK"
           /\ study.summary[n + 1].run \in {study.launched[m] : m \in DOMAIN study.launched}

\* The statement of system/parameters that set_parameter(path, value) writes
\* the value of a sweep parameter to.
WrittenKey(path) ==
    IF path[1] = "contact_angles" THEN "CA_" \o path[2]
    ELSE IF path[1] = "rheology" THEN RheologyMap[path[2]][1]
    ELSE IF path = <<"process", "end_time">> THEN "endTime"
    ELSE path[2]

\* The record results_summary.append added last.
LastRecord == study.summary[Len(study.summary)]

\* C22: the values published for a run equal the values written to its case
\* files: every parameter of the record run_study appends to the summary has
\* the value its statement holds in the run's system/parameters, truncated
\* values included.
C22_PublishedValuesAreWrittenValues ==
    (/\ study.pc = "loop"
     /\ study.summary # <<>>
     /\ LastRecord.status # "DRY_RUN")
    => \A n \in DOMAIN LastRecord.parameters :
          LET p == LastRecord.parameters[n]
              lines == files["parameters"].lines
              m == SearchNumber(lines, WrittenKey(p.k))
          IN  /\ m # 0
              /\ ToRat(TextValue(lines[m].val)) = ToRat(p.v)

\* C23: after set_parameter('geometry.ratio_surface', r) the parameters file
\* holds ratio_surface = r and y_buse = r * S_puit / x_buse to the three
\* decimals it is written with, and the written values satisfy
\* y_buse_top = y_buse_bottom + y_buse, y_buse_top_m = y_buse_top * 1e-3,
\* y_ink = y_buse, y_ink_top = y_buse_top and y_ink_top_m = y_buse_top_m.
C23_RatioSurfaceCascades ==
    \A i \in DOMAIN hist :
        (/\ hist[i].op = "geometry"
         /\ hist[i].params[1].k = "ratio_surface"
         /\ hist[i].pre["parameters"].exists)
        => LET new == Post(i)["parameters"].lines
               r == ToRat(hist[i].params[1].v)
               y_buse == RatMul(r, Rat(SPuitMicro, XBuseMicro))
           IN  /\ hist[i].exc = "none"
               /\ \A key \in {"ratio_surface", "y_buse", "y_buse_bottom", "y_buse_top",
                                "y_buse_top_m", "y_ink", "y_ink_top", "y_ink_top_m"} :
                      SearchNumber(new, key) # 0
               /\ ValueOf(new, "ratio_surface") = r
               /\ TextOf(new, "y_buse") = Fixed(y_buse, 3)
               /\ ValueOf(new, "y_buse_top")
                      = RatAdd(ValueOf(new, "y_buse_bottom"), ValueOf(new, "y_buse"))
               /\ ValueOf(new, "y_buse_top_m")
                      = RatMul(ValueOf(new, "y_buse_top"), Rat(1, 1000))
               /\ ValueOf(new, "y_ink") = ValueOf(new, "y_buse")
               /\ ValueOf(new, "y_ink_top") = ValueOf(new, "y_buse_top")
               /\ ValueOf(new, "y_ink_top_m") = ValueOf(new, "y_buse_top_m")

\* Opening braces less closing braces among lines a..b.
BraceBalance(lines, a, b) ==
    Cardinality({k \in a..b : StartsWith(lines[k], "{")})
    - Cardinality({k \in a..b : StartsWith(lines[k], "}")})

\* The name lines before line j whose block, counted by brace balance, is
\* still open at line j.
OpenBlocks(lines, j, ap) ==
    { a \in 1..(j - 1) :
          /\ IsNameLine(lines[a], ap)
          /\ \A m \in (a + 2)..(j - 1) : BraceBalance(lines, a + 1, m) >= 1 }

\* C24: the nested-block scan leaves a requested block only at the closing
\* brace matching the block's opening brace: a theta0 line that lies inside
\* a requested block by brace balance, after a nested sub-block, is
\* rewritten with the block's angle.
C24_BlockLeftByBraceBalance ==
    \A i \in DOMAIN hist :
        (IsScan(i) /\ hist[i].exc = "none")
        => LET old == hist[i].pre["alpha.water"].lines
               new == Post(i)["alpha.water"].lines
               ap == ScanAngles(i)
           IN  \A j \in DOMAIN old :
                   (StartsWith(old[j], "theta0") /\ OpenBlocks(old, j, ap) # {})
                   => /\ j \in DOMAIN new
                      /\ new[j] = ThetaLine(Lookup(ap, old[First(OpenBlocks(old, j, ap))].key))

\* C25: in a dry run no run directory is created, removed or modified and no
\* solver command is started, and every combination is recorded with status
\* DRY_RUN.
C25_DryRunCreatesNothing ==
    (study.pc # "none" /\ study.config.dry_run)
    => /\ study.dirs = study.stale
       /\ study.ended = study.stale
       /\ study.vtk = study.stale
       /\ files = CaseDir({})
       /\ study.launched = <<>>
       /\ study.alive = {}
       /\ study.calls = <<>>
       /\ \A n \in DOMAIN study.summary : study.summary[n].status = "DRY_RUN"
       /\ study.pc = "done" => Len(study.summary) = Len(study.combinations)

\* A dry run of several combinations has ended in a results directory that
\* held the directory of an earlier run.
C25_Witness ==
    /\ study.pc = "done"
    /\ study.config.dry_run
    /\ Len(study.summary) >= 2
    /\ study.stale # {}

\* The run names that enter the processed set in this step.
NewlyProcessed == watch'.processed \ watch.processed

AllRunsEnded == study.dirs # {} /\ study.dirs \subseteq study.ended

\* C27: when run directories exist and all of them end up holding the end
\* mark, and conversion and GIF generation fail only finitely often,
\* watch_study eventually leaves its loop; a run whose conversion or GIF
\* generation answered False in one poll is not marked processed by it.
C27_WatchEventuallyTerminates ==
    /\ (<>[]AllRunsEnded) => <>(watch.pc = "done")
    /\ [][\A d \in NewlyProcessed :
              watch'.last.run = d
              => watch'.last.vtk # "failed" /\ watch'.last.gif # "failed"]_vars

\* C28: with run_study running on the same study, watch_study does not
\* leave its loop before every combination of the sweep has its run
\* directory, a finished solver and its GIF.
C28_WatchOutlastsStudy ==
    (watch.pc = "done" /\ ~study.config.dry_run)
    => /\ study.pc = "done"
       /\ \A n \in DOMAIN study.combinations :
              LET d == Enumerate(study.config.start_index, n)
              IN  d \in study.dirs /\ d \in study.ended /\ HasGif(d)

\* The combination the loop is at sets both the dispense time and the nozzle
\* height, directly or through the surface ratio.
SetsTimeAndHeight ==
    /\ Has(study.combinations[study.pos], <<"process", "dispense_time">>)
    /\ \/ Has(study.combinations[study.pos], <<"geometry", "y_buse">>)
       \/ Has(study.combinations[study.pos], <<"geometry", "ratio_surface">>)

\* C29: once run_study has applied every parameter of a combination that
\* sets both process.dispense_time and the nozzle height, the parameters
\* file holds dispense_velocity = y_ink * 1e-3 / dispense_time, to the six
\* decimals it is written with, for the y_ink finally written, and
\* dispense_end = dispense_time, whatever the order of the parameters.
C29_DispenseVelocityFollowsFinalInk ==
    (study.pc = "launch" /\ SetsTimeAndHeight)
    => LET lines == files["parameters"].lines
           y_ink == ValueOf(lines, "y_ink")
           dispense_time == ValueOf(lines, "dispense_time")
       IN  /\ dispense_time
                = ToRat(Lookup(study.combinations[study.pos], <<"process", "dispense_time">>))
           /\ TextOf(lines, "dispense_velocity")
                = Fixed(RatDiv(RatMul(y_ink, Rat(1, 1000)), dispense_time), 6)
           /\ ValueOf(lines, "dispense_end") = dispense_time

\* C30: status reads the summary.json that run_study wrote and prints one
\* line per run without raising: every key it reads from a record is a key
\* run_study writes.
C30_StatusReadsWhatRunStudyWrites ==
    study.pc = "reported"
    => /\ study.report.exc = "none"
       /\ Len(study.report.lines) = Len(study.summary)
       /\ \A n \in DOMAIN study.summary : StatusFields \subseteq DOMAIN study.summary[n]

====
